---- MODULE Spec2Model ----
(***************************************************************************)
(* Model of the actuator-control core of EMBER.                            *)
(*                                                                         *)
(* Part 1: backend/steppers.js, the per-axis stepper controller.  Every    *)
(* public operation is a call that either rejects synchronously or chains  *)
(* a unit of work on the axis promise chain (withLock).  A unit of work    *)
(* runs in segments separated by awaits on ticcmd invocations (runTic).    *)
(* JavaScript runs each callback to completion and drains the microtask    *)
(* queue before the next I/O callback: the I/O-level events of the model   *)
(* (a call from the HTTP layer, the exit of a ticcmd process) are taken    *)
(* only when no promise reaction is pending.                               *)
(*                                                                         *)
(* Part 2: the Solenoids class of backend/imu.js (lines 74-221), the       *)
(* client of the solenoid daemon.  It owns the handle of the daemon        *)
(* subprocess, the table of pending requests and the cached status.  The   *)
(* daemon is a black box: while it has not exited it may print any of its  *)
(* messages at any time, answer any command it was sent, or exit.  The     *)
(* stdout handler is modelled on chunks holding one complete line.         *)
(***************************************************************************)
EXTENDS Integers, Sequences, FiniteSets, TLC

\* Bound on the number of calls of public axis operations (every unit of
\* work handed to withLock, and every call rejected before that, counts).
MaxOps == 3

\* Bounds on the number of daemon requests sent and of daemon subprocesses
\* spawned.
MaxSends == 3

MaxProcs == 2

Axes == {"yaw", "pitch"}

\* Object.keys(AXES): the iteration order of statusAll and stopAll.
AxisOrder == <<"yaw", "pitch">>

\* AXES[axis].stepsPerTick with the defaults of the source.
stepsPerTick == [a \in Axes |-> IF a = "yaw" THEN 250 ELSE 450]

\* A JavaScript null / an absent field is the empty sequence, a number p
\* is <<p>>.
Null == << >>

Val(x) == x[1]

\* Values of "Current position" a status read may report (or none).
Reported == {Null, <<1000>>}

\* dir values a caller passes to jog.
Dirs == {-2, 0, 1}

\* The arguments of the jogs submitted to the axis chains: speed01 is the
\* rational num/den (exact in binary floating point for the values used
\* here).  One jog forwards at half speed and one backwards at speed 0; the
\* arithmetic over every dir and speed01 is SpecJog's.
JogCalls == {[dir |-> 1, speed01 |-> [num |-> 1, den |-> 2]],
             [dir |-> -2, speed01 |-> [num |-> 0, den |-> 1]]}

Max(x, y) == IF x >= y THEN x ELSE y

VARIABLES
  ALLOW_ENERGIZE,  \* configuration: TIC_ALLOW_ENERGIZE = "1"
  serial,          \* configuration: serial[a] iff AXES[a].serial is set
  state,           \* state[a] = [targetPos, enabled]
  locks,           \* locks[a]: the call whose promise is the tail of the chain, 0 = Promise.resolve()
  jin,             \* inputs of the jog arithmetic (specification SpecJog)
  jout,            \* its results
  input,           \* the argument of the function applied by SpecPulse, SpecParse
  output,          \* its result
  calls,           \* calls[a]: the number of calls of public operations made on axis a
  ops,             \* ops[a]: the calls on axis a that have not settled, in submission order
  last,            \* the call that settled last, with its axis (none: id 0)
  inflight,        \* ticcmd processes started by execFile and not yet exited
  tic,             \* tic[a]: what the ticcmd side of axis a has observed
  aggs,            \* calls of statusAll / stopAll
  solenoids,       \* the Solenoids instance: [proc, buf, ready, lastStatus, pending]
  timers,          \* ids of the requests whose setTimeout is armed
  daemons,         \* daemons[g]: the g-th subprocess spawned: the last of ready / fatal it printed, or exited
  sends,           \* sends[id]: the promise of the request id, in the order of the calls of #send
  stdin,           \* the commands written to proc.stdin, in the order of the writes
  ev               \* the call or event handled last

vars == <<ALLOW_ENERGIZE, serial, jin, jout, input, output, state, locks, calls, ops, last, inflight, tic, aggs,
          solenoids, timers, daemons, sends, stdin, ev>>

\* The variables of the daemon client.
solvars == <<solenoids, timers, daemons, sends, stdin, ev>>

config == <<ALLOW_ENERGIZE, serial, jin, jout, input, output>>

----------------------------------------------------------------------------
\* Records

NoSpeed == [num |-> 0, den |-> 1]

NewOp(a, id, kind, d, sp, parent) ==
  [axis |-> a, id |-> id, kind |-> kind, pred |-> 0,
   status |-> "queued", pc |-> "start", d |-> d, sp |-> sp,
   acc |-> FALSE, rep |-> Null,
   next |-> 0, step |-> 0, err |-> "", parent |-> parent,
   head |-> 0, off |-> FALSE, en |-> 0]

Settled(o) == o.status \in {"resolved", "rejected"}

\* A settled call is its promise alone: fulfilled (for jog with the value
\* {targetPos: next, step}) or rejected with an Error of message e; the
\* closure of the unit of work is gone.
Resolve(o) ==
  [o EXCEPT !.status = "resolved", !.pc = "done", !.d = 0, !.sp = NoSpeed,
            !.acc = FALSE, !.rep = Null, !.head = 0,
            !.next = IF o.kind = "jog" THEN o.next ELSE 0,
            !.step = IF o.kind = "jog" THEN o.step ELSE 0]

Reject(o, e) ==
  [o EXCEPT !.status = "rejected", !.pc = "done", !.err = e, !.d = 0,
            !.sp = NoSpeed, !.acc = FALSE, !.rep = Null, !.next = 0, !.step = 0,
            !.head = 0]

At(o, pc) == [o EXCEPT !.status = "running", !.pc = pc]

\* The outcome of one segment of a unit of work: the new axis state, the new
\* call record and the ticcmd invocation it starts (none when it settles).
Eff(st, o, iss) == [st |-> st, op |-> o, issue |-> iss]

Issue(cmd, arg) == <<[cmd |-> cmd, arg |-> arg]>>

----------------------------------------------------------------------------
\* jog arithmetic (steppers.js 169-180)

\* Math.sign(Number(dir || 0)) for a numeric dir.
Sign(x) == IF x > 0 THEN 1 ELSE IF x < 0 THEN -1 ELSE 0

\* Math.max(0, Math.min(1, sp)) on the rational sp.num / sp.den, den > 0.
Clamp01(sp) ==
  IF sp.num < 0 THEN [num |-> 0, den |-> 1]
  ELSE IF sp.num > sp.den THEN [num |-> 1, den |-> 1]
  ELSE sp

\* Math.round(num / den): the nearest integer, a tie going to +infinity.
Round(num, den) == (2 * num + den) \div (2 * den)

JogStepNoFloor(k, sp) == Round(k * Clamp01(sp).num, Clamp01(sp).den)

\* step = Math.max(1, Math.round(AXES[axis].stepsPerTick * sp))
JogStep(k, sp) == Max(1, Round(k * Clamp01(sp).num, Clamp01(sp).den))

JogNextUnsigned(curTarget, d, step) == curTarget + step

\* next = curTarget + d * step
JogNext(curTarget, d, step) == curTarget + d * step

----------------------------------------------------------------------------
\* withLock (steppers.js 24-29)

LiveIn(q, p) == \E k \in 1..Len(q) : q[k].id = p

\* The call p of axis a has not settled.
Live(a, p) == LiveIn(ops[a], p)

ThenFiresOneAtATime(a, p) ==
  /\ IF p = 0 THEN TRUE ELSE ~Live(a, p)
  /\ \A b \in Axes \ {a} : \A k \in 1..Len(ops[b]) : ops[b][k].status # "running"

ThenFiresAlways(a, p) == TRUE

ThenFiresOnFulfil(a, p) ==
  IF p = 0 THEN TRUE ELSE last.axis = a /\ last.id = p /\ last.status = "resolved"

\* locks[axis].then(fn, fn): fn is called once the promise p has settled,
\* fulfilled or rejected alike; promise 0 is the initial Promise.resolve().
ThenFires(a, p) == IF p = 0 THEN TRUE ELSE ~Live(a, p)

LockTailStale(a, id) == locks[a]

\* locks[axis] = locks[axis].then(fn, fn): the chain's new tail is the
\* promise of the call being submitted.
LockTail(a, id) == id

\* if (!s) throw new Error(`Missing ${axis} serial...`)
needSerial(a) == serial[a]

energizeRefusedNever == FALSE

\* if (!ALLOW_ENERGIZE) throw ...
energizeRefused == ~ALLOW_ENERGIZE

----------------------------------------------------------------------------
\* Segments of the units of work.  e is the message of the Error with which
\* a failed runTic rejects (the text of that invocation), here its command.

\* const cur = typeof st.currentPosition === "number" ? st.currentPosition : 0
CurOf(out) == IF out # Null THEN Val(out) ELSE 0

Fail(a, o, st, e) == Eff(st, Reject(o, e), << >>)

\* disable, after its try { await halt(axis) } catch {}.
deenergize(a, o, st) == Eff(st, At(o, "de"), Issue("--deenergize", Null))

haltReturnsUnseeded(a, o, st) ==
  IF o.kind = "disable" THEN deenergize(a, o, [st EXCEPT !.targetPos = Null])
  ELSE Eff([st EXCEPT !.targetPos = Null], Resolve(o), << >>)

\* halt has returned: disable goes on with --deenergize, stop is done.
haltReturns(a, o, st) ==
  IF o.kind = "disable" THEN deenergize(a, o, st) ELSE Eff(st, Resolve(o), << >>)

haltThrowsPropagates(a, o, st, e) == Fail(a, o, st, e)

\* A rejection of halt: swallowed by disable, propagated by stop.
haltThrows(a, o, st, e) ==
  IF o.kind = "disable" THEN deenergize(a, o, st) ELSE Fail(a, o, st, e)

\* readStatus up to its await, the caller continuing at pc.  A throw of
\* needSerial propagates to the caller: inside halt's fallback (pc "h2") it
\* is a rejection of halt, elsewhere a rejection of the unit of work.
readStatus(a, o, st, pc) ==
  IF ~needSerial(a)
  THEN IF pc = "h2" THEN haltThrows(a, o, st, "Missing serial")
       ELSE Fail(a, o, st, "Missing serial")
  ELSE Eff(st, At(o, pc), Issue("--status", Null))

halt(a, o, st) ==
  IF ~needSerial(a) THEN haltThrows(a, o, st, "Missing serial")
  ELSE Eff(st, At(o, "h1"), Issue("--halt-and-hold", Null))

haltFallbackPosCached(st, out) == IF st.targetPos # Null THEN Val(st.targetPos) ELSE 0

\* halt's fallback: the position the hold is commanded at.
haltFallbackPos(st, out) == CurOf(out)

setTargetPositionOptimistic(a, o, st, position) ==
  IF ~needSerial(a) THEN Fail(a, o, st, "Missing serial")
  ELSE Eff([st EXCEPT !.targetPos = <<position>>],
           At([o EXCEPT !.next = position], "j2"),
           Issue("--position", <<position>>))

\* setTargetPosition up to its await; the cached target is written by the
\* continuation (pc "j2").
setTargetPosition(a, o, st, position) ==
  IF ~needSerial(a) THEN Fail(a, o, st, "Missing serial")
  ELSE Eff(st, At([o EXCEPT !.next = position], "j2"),
           Issue("--position", <<position>>))

\* jog from the result of ensureTargetPos on.
jogMove(a, o, st, curTarget) ==
  LET step == JogStep(stepsPerTick[a], o.sp)
  IN  setTargetPosition(a, [o EXCEPT !.step = step], st,
                        JogNext(curTarget, o.d, step))

jogRefusedNever(st) == FALSE

\* if (!state[axis].enabled) throw ...
jogRefused(st) == ~st.enabled

jogAlwaysReads(a, o, st) ==
  IF jogRefused(st) THEN Fail(a, o, st, "not enabled")
  ELSE readStatus(a, o, st, "j1")

\* jog inside withLock, up to its first await: ensureTargetPos returns the
\* cached target at once or awaits a status read (pc "j1").
jog(a, o, st) ==
  IF jogRefused(st) THEN Fail(a, o, st, "not enabled")
  ELSE IF st.targetPos # Null THEN jogMove(a, o, st, Val(st.targetPos))
  ELSE readStatus(a, o, st, "j1")

setZeroKeepsTarget(a, o, st) == readStatus(a, o, st, "z2")

\* setZero after its await of --halt-and-set-position 0:
\* state[axis].targetPos = 0; return readStatus(axis)
setZeroAccepted(a, o, st) == readStatus(a, o, [st EXCEPT !.targetPos = <<0>>], "z2")

enableSkipsSeed(a, o, st) == readStatus(a, o, [st EXCEPT !.enabled = TRUE], "en4")

\* enable after its await of --exit-safe-start:
\* state[axis].enabled = true; await ensureTargetPos(axis), which returns
\* the cached target at once or awaits a status read (pc "en3").
enableMarked(a, o, st) ==
  LET st1 == [st EXCEPT !.enabled = TRUE]
  IN  IF st1.targetPos # Null
      THEN readStatus(a, o, st1, "en4")
      ELSE readStatus(a, o, st1, "en3")

disableKeepsEnabled(a, o, st) == readStatus(a, o, st, "ds")

\* disable after its await of --deenergize:
\* state[axis].enabled = false; return readStatus(axis)
disableAccepted(a, o, st) == readStatus(a, o, [st EXCEPT !.enabled = FALSE], "ds")

\* The first segment of a unit of work, run when its turn on the chain comes.
Start(a, o, st) ==
  CASE o.kind = "status"  -> readStatus(a, o, st, "rs")
    [] o.kind = "enable"  -> Eff(st, At(o, "en1"), Issue("--energize", Null))
    [] o.kind = "disable" -> halt(a, o, st)
    [] o.kind = "stop"    -> halt(a, o, st)
    [] o.kind = "jog"     -> jog(a, o, st)
    [] o.kind = "setZero" -> Eff(st, At(o, "z1"), Issue("--halt-and-set-position", <<0>>))

\* The segment after the await at o.pc, the invocation having exited with
\* success (ok, a status read reporting position out) or with error e.
Cont(a, o, st, ok, out, e) ==
  CASE o.pc = "rs"  -> IF ok THEN Eff(st, Resolve(o), << >>) ELSE Fail(a, o, st, e)
    [] o.pc = "en1" -> IF ok THEN Eff(st, At(o, "en2"), Issue("--exit-safe-start", Null))
                       ELSE Fail(a, o, st, e)
    [] o.pc = "en2" -> IF ok THEN enableMarked(a, o, st)
                       ELSE Fail(a, o, st, e)
    [] o.pc = "en3" -> IF ok
                       THEN readStatus(a, o, [st EXCEPT !.targetPos = <<CurOf(out)>>], "en4")
                       ELSE Fail(a, o, st, e)
    [] o.pc = "en4" -> IF ok THEN Eff(st, Resolve(o), << >>) ELSE Fail(a, o, st, e)
    [] o.pc = "h1"  -> IF ok THEN haltReturns(a, o, st)
                       ELSE readStatus(a, o, st, "h2")
    [] o.pc = "h2"  -> IF ok
                       THEN LET cur == haltFallbackPos(st, out)
                            IN  Eff(st, At([o EXCEPT !.next = cur], "h3"),
                                    Issue("--position", <<cur>>))
                       ELSE haltThrows(a, o, st, e)
    [] o.pc = "h3"  -> IF ok THEN haltReturns(a, o, [st EXCEPT !.targetPos = <<o.next>>])
                       ELSE haltThrows(a, o, st, e)
    [] o.pc = "de"  -> IF ok THEN disableAccepted(a, o, st)
                       ELSE Fail(a, o, st, e)
    [] o.pc = "ds"  -> IF ok THEN Eff(st, Resolve(o), << >>) ELSE Fail(a, o, st, e)
    [] o.pc = "j1"  -> IF ok
                       THEN jogMove(a, o, [st EXCEPT !.targetPos = <<CurOf(out)>>], CurOf(out))
                       ELSE Fail(a, o, st, e)
    [] o.pc = "j2"  -> IF ok THEN Eff([st EXCEPT !.targetPos = <<o.next>>], Resolve(o), << >>)
                       ELSE Fail(a, o, st, e)
    [] o.pc = "z1"  -> IF ok THEN setZeroAccepted(a, o, st)
                       ELSE Fail(a, o, st, e)
    [] o.pc = "z2"  -> IF ok THEN Eff(st, Resolve(o), << >>) ELSE Fail(a, o, st, e)

----------------------------------------------------------------------------
\* Initial state (steppers.js 5-25)

NoCall == Reject(NewOp("none", 0, "none", 0, NoSpeed, 0), "")

NoJog == [k |-> 0, sp |-> NoSpeed, dir |-> 0, t |-> 0, done |-> FALSE, step |-> 0, next |-> 0]

Idle ==
  /\ state = [a \in Axes |-> [targetPos |-> Null, enabled |-> FALSE]]
  /\ locks = [a \in Axes |-> 0]
  /\ calls = [a \in Axes |-> 0]
  /\ ops = [a \in Axes |-> << >>]
  /\ last = NoCall
  /\ inflight = {}
  /\ tic = [a \in Axes |-> [lastOp |-> 0, power |-> "none"]]
  /\ aggs = << >>

\* { ready: false, lastError: null }; levels (with activeLow and pins, which
\* always come with it) is absent.
NoStatus == [ready |-> FALSE, lastError |-> "null", levels |-> Null]

NoEvent == [type |-> "none", id |-> 0]

\* new Solenoids(): no subprocess, nothing pending, not ready.
constructor ==
  /\ solenoids = [proc |-> 0, buf |-> << >>, ready |-> FALSE, lastStatus |-> NoStatus,
                  pending |-> {}]
  /\ timers = {}
  /\ daemons = << >>
  /\ sends = << >>
  /\ stdin = << >>
  /\ ev = NoEvent

Init ==
  /\ ALLOW_ENERGIZE \in BOOLEAN
  /\ serial \in [Axes -> BOOLEAN]
  /\ jin = NoJog
  /\ jout = NoJog
  /\ input = Null
  /\ output = Null
  /\ Idle
  /\ constructor

ReadyToStartStopFirst(a, k) ==
  /\ ops[a][k].status = "queued"
  /\ \/ ThenFires(a, ops[a][k].pred)
     \/ /\ ops[a][k].kind \in {"stop", "disable"}
        /\ \A j \in 1..Len(ops[a]) : ops[a][j].status # "running"

\* A promise reaction is pending: a unit of work whose turn has come, or an
\* aggregate whose awaited call has settled.
ReadyToStart(a, k) ==
  /\ ops[a][k].status = "queued"
  /\ ThenFires(a, ops[a][k].pred)

AggReady(g) == aggs[g].idx <= Len(AxisOrder) /\ aggs[g].got # Null

MicrotaskPending ==
  \/ \E a \in Axes : \E k \in 1..Len(ops[a]) : ReadyToStart(a, k)
  \/ \E g \in 1..Len(aggs) : AggReady(g)

\* Calls an aggregate in progress has still to make.
Reserved == Cardinality({g \in 1..Len(aggs) : aggs[g].idx < Len(AxisOrder)})

CanCall(n) ==
  /\ ~MicrotaskPending
  /\ calls["yaw"] + calls["pitch"] + Reserved + n <= MaxOps

\* History of a call, taken when it is submitted.  For an enable: the call
\* at the head of the chain of its axis then (itself if the chain is empty).
HeadAt(kind, a, id) ==
  IF kind # "enable" THEN 0
  ELSE IF ops[a] = << >> THEN id ELSE ops[a][1].id

\* For a jog: a disable of its axis has succeeded, nothing has settled since
\* and no enable of the axis has been submitted since (every enable not yet
\* settled was submitted while that disable had not settled).
OffAt(kind, a) ==
  /\ kind = "jog"
  /\ last.axis = a /\ last.kind = "disable" /\ last.status = "resolved"
  /\ \A k \in 1..Len(ops[a]) : ops[a][k].kind = "enable" => ops[a][k].head <= last.id

\* For a jog: the enables of its axis that have not settled.
EnablesAt(kind, a) ==
  IF kind # "jog" THEN 0
  ELSE Cardinality({k \in 1..Len(ops[a]) : ops[a][k].kind = "enable"})

\* withLock(axis, fn): the call joins the chain of its axis.
Locked(kind, a, d, sp, parent) ==
  LET id == calls[a] + 1
  IN  /\ calls' = [calls EXCEPT ![a] = id]
      /\ ops' = [ops EXCEPT ![a] = Append(@, [NewOp(a, id, kind, d, sp, parent) EXCEPT
                                               !.pred = locks[a],
                                               !.head = HeadAt(kind, a, id),
                                               !.off = OffAt(kind, a),
                                               !.en = EnablesAt(kind, a)])]
      /\ locks' = [locks EXCEPT ![a] = LockTail(a, id)]
      /\ UNCHANGED last

\* A call that throws before withLock: its promise is rejected at once.
Thrown(kind, a, e) ==
  /\ calls' = [calls EXCEPT ![a] = @ + 1]
  /\ last' = Reject(NewOp(a, calls[a] + 1, kind, 0, NoSpeed, 0), e)
  /\ UNCHANGED <<ops, locks>>

----------------------------------------------------------------------------
\* Public operations, up to their first await

statusAxis(a) ==
  /\ CanCall(1)
  /\ Locked("status", a, 0, NoSpeed, 0)
  /\ UNCHANGED <<config, solvars, state, inflight, tic, aggs>>

enable(a) ==
  /\ CanCall(1)
  /\ IF energizeRefused THEN Thrown("enable", a, "Energize disabled")
     ELSE IF ~needSerial(a) THEN Thrown("enable", a, "Missing serial")
     ELSE Locked("enable", a, 0, NoSpeed, 0)
  /\ UNCHANGED <<config, solvars, state, inflight, tic, aggs>>

disable(a) ==
  /\ CanCall(1)
  /\ IF ~needSerial(a) THEN Thrown("disable", a, "Missing serial")
     ELSE Locked("disable", a, 0, NoSpeed, 0)
  /\ UNCHANGED <<config, solvars, state, inflight, tic, aggs>>

jogCall(a, dir, speed01) ==
  /\ CanCall(1)
  /\ Locked("jog", a, Sign(dir), speed01, 0)
  /\ UNCHANGED <<config, solvars, state, inflight, tic, aggs>>

stop(a) ==
  /\ CanCall(1)
  /\ Locked("stop", a, 0, NoSpeed, 0)
  /\ UNCHANGED <<config, solvars, state, inflight, tic, aggs>>

setZeroWritesFirst(a) ==
  /\ CanCall(1)
  /\ IF ~needSerial(a) THEN Thrown("setZero", a, "Missing serial")
     ELSE Locked("setZero", a, 0, NoSpeed, 0)
  /\ state' = [state EXCEPT ![a].targetPos = <<0>>]
  /\ UNCHANGED <<config, solvars, inflight, tic, aggs>>

setZero(a) ==
  /\ CanCall(1)
  /\ IF ~needSerial(a) THEN Thrown("setZero", a, "Missing serial")
     ELSE Locked("setZero", a, 0, NoSpeed, 0)
  /\ UNCHANGED <<config, solvars, state, inflight, tic, aggs>>

NoOut == [a \in Axes |-> [done |-> FALSE, ok |-> FALSE, error |-> ""]]

\* statusAll / stopAll up to the await of the first axis.
Aggregate(kind, sub) ==
  /\ CanCall(Len(AxisOrder))
  /\ Locked(sub, AxisOrder[1], 0, NoSpeed, Len(aggs) + 1)
  /\ aggs' = Append(aggs, [kind |-> kind, sub |-> sub, idx |-> 1,
                           got |-> Null, out |-> NoOut])
  /\ UNCHANGED <<config, solvars, state, inflight, tic>>

statusAll == Aggregate("statusAll", "status")

stopAll == Aggregate("stopAll", "stop")

AggStepNoCatch(g) ==
  /\ AggReady(g)
  /\ LET ag == aggs[g]
         a == AxisOrder[ag.idx]
         o == Val(ag.got)
         ok == o.status = "resolved"
         ag1 == IF ok
                THEN [ag EXCEPT !.idx = ag.idx + 1, !.got = Null,
                                !.out[a] = [done |-> TRUE, ok |-> TRUE, error |-> ""]]
                ELSE [ag EXCEPT !.idx = Len(AxisOrder) + 1, !.got = Null]
     IN  /\ aggs' = [aggs EXCEPT ![g] = ag1]
         /\ IF ok /\ ag.idx < Len(AxisOrder)
            THEN Locked(ag.sub, AxisOrder[ag.idx + 1], 0, NoSpeed, g)
            ELSE UNCHANGED <<calls, ops, locks, last>>
  /\ UNCHANGED <<config, solvars, state, inflight, tic>>

\* The loop of statusAll / stopAll resuming after its await: the result or
\* the caught error of the axis is recorded and the next axis is attempted.
AggStep(g) ==
  /\ AggReady(g)
  /\ LET ag == aggs[g]
         a == AxisOrder[ag.idx]
         o == Val(ag.got)
         ag1 == [ag EXCEPT !.idx = ag.idx + 1, !.got = Null,
                           !.out[a] = [done |-> TRUE, ok |-> o.status = "resolved",
                                       error |-> o.err]]
     IN  /\ aggs' = [aggs EXCEPT ![g] = ag1]
         /\ IF ag.idx < Len(AxisOrder)
            THEN Locked(ag.sub, AxisOrder[ag.idx + 1], 0, NoSpeed, g)
            ELSE UNCHANGED <<calls, ops, locks, last>>
  /\ UNCHANGED <<config, solvars, state, inflight, tic>>

----------------------------------------------------------------------------
\* Execution of the units of work

\* A ticcmd process: the call and the await (pc) it belongs to, its arguments.
Invocation(i, a, pc, is) == [op |-> i, axis |-> a, at |-> pc, cmd |-> is.cmd, arg |-> is.arg]

Started(i, a, eff) == {Invocation(i, a, eff.op.pc, eff.issue[k]) : k \in 1..Len(eff.issue)}

\* The ticcmd side of an axis: the call whose invocation it saw start last,
\* and the last of --energize / --deenergize it accepted.
Observe(t, started, accepted) ==
  [lastOp |-> IF started = {} THEN t.lastOp ELSE (CHOOSE inv \in started : TRUE).op,
   power  |-> IF accepted \in {"--energize", "--deenergize"} THEN accepted ELSE t.power]

Remove(q, k) == [j \in 1..(Len(q) - 1) |-> IF j < k THEN q[j] ELSE q[j + 1]]

\* The outcome of a segment takes effect: the call goes on or settles, and a
\* settled call resumes the aggregate awaiting it.
Commit(a, k, eff, accepted) ==
  /\ state' = [state EXCEPT ![a] = eff.st]
  /\ inflight' = {inv \in inflight : ~(inv.axis = a /\ inv.op = eff.op.id)}
                   \cup Started(eff.op.id, a, eff)
  /\ tic' = [tic EXCEPT ![a] = Observe(@, Started(eff.op.id, a, eff), accepted)]
  /\ IF Settled(eff.op)
     THEN /\ ops' = [ops EXCEPT ![a] = Remove(@, k)]
          /\ last' = eff.op
          /\ aggs' = IF eff.op.parent = 0 THEN aggs
                     ELSE [aggs EXCEPT ![eff.op.parent].got = <<eff.op>>]
     ELSE /\ ops' = [ops EXCEPT ![a][k] = eff.op]
          /\ UNCHANGED <<last, aggs>>
  /\ UNCHANGED <<config, solvars, locks, calls>>

\* The reaction of withLock's then: the unit of work at ops[a][k] starts.
StartOp(a, k) ==
  /\ ReadyToStart(a, k)
  /\ Commit(a, k, Start(a, ops[a][k], state[a]), "none")

\* The execFile callback of runTic: the invocation inv has exited and the
\* unit of work awaiting it runs to its next await or to its end.  The
\* closure holds whether the awaited runTic resolved (acc) and the payload
\* of its last status read (rep).
CliDone(inv, ok, out) ==
  /\ inv \in inflight
  /\ ~MicrotaskPending
  /\ LET a == inv.axis
         k == CHOOSE k \in 1..Len(ops[a]) : ops[a][k].id = inv.op
         o == [ops[a][k] EXCEPT !.acc = ok,
                                 !.rep = IF ok /\ inv.cmd = "--status" THEN <<out>> ELSE @]
     IN  Commit(a, k, Cont(a, o, state[a], ok, out, inv.cmd),
                IF ok THEN inv.cmd ELSE "none")

CliExit(a) ==
  \E inv \in {x \in inflight : x.axis = a} :
    \/ CliDone(inv, FALSE, Null)
    \/ /\ inv.cmd = "--status"
       /\ \E out \in Reported : CliDone(inv, TRUE, out)
    \/ /\ inv.cmd # "--status"
       /\ CliDone(inv, TRUE, Null)

Next ==
  \/ \E a \in Axes : statusAxis(a)
  \/ \E a \in Axes : enable(a)
  \/ \E a \in Axes : disable(a)
  \/ \E a \in Axes, j \in JogCalls : jogCall(a, j.dir, j.speed01)
  \/ \E a \in Axes : stop(a)
  \/ \E a \in Axes : setZero(a)
  \/ statusAll
  \/ stopAll
  \/ \E g \in 1..Len(aggs) : AggStep(g)
  \/ \E a \in Axes : \E k \in 1..Len(ops[a]) : StartOp(a, k)
  \/ \E a \in Axes : CliExit(a)

Spec == Init /\ [][Next]_vars

\* The chain of one axis on its own, energizing permitted and the device
\* handle configured.  Promise reactions always run, and every ticcmd
\* invocation exits (execFile is given a timeout).
InitChain ==
  /\ ALLOW_ENERGIZE = TRUE
  /\ serial = [a \in Axes |-> TRUE]
  /\ jin = NoJog
  /\ jout = NoJog
  /\ input = Null
  /\ output = Null
  /\ Idle
  /\ constructor

NextChain ==
  \/ statusAxis("yaw")
  \/ enable("yaw")
  \/ disable("yaw")
  \/ \E j \in JogCalls : jogCall("yaw", j.dir, j.speed01)
  \/ stop("yaw")
  \/ setZero("yaw")
  \/ \E k \in 1..Len(ops["yaw"]) : StartOp("yaw", k)
  \/ CliExit("yaw")

FairChain ==
  /\ InitChain
  /\ [][NextChain]_vars
  /\ WF_vars(\E k \in 1..Len(ops["yaw"]) : StartOp("yaw", k))
  /\ WF_vars(CliExit("yaw"))

\* The chain of one axis under every configuration of its device handle
\* and of the energize gate.  The chains of the axes share no state
\* (state[a], locks[a] and the ticcmd invocations are per axis), and an
\* aggregate adds to a chain only the status reads and stops that the single
\* calls add: the claims about one chain are settled on the chain of yaw.
InitAxis ==
  /\ ALLOW_ENERGIZE \in BOOLEAN
  /\ serial \in {s \in [Axes -> BOOLEAN] : s["pitch"]}
  /\ jin = NoJog
  /\ jout = NoJog
  /\ input = Null
  /\ output = Null
  /\ Idle
  /\ constructor

SpecAxis == InitAxis /\ [][NextChain]_vars

\* The aggregates with single status reads and stops around them, any device
\* handle configured or missing.  Promise reactions always run and every
\* ticcmd invocation exits.
InitAgg ==
  /\ ALLOW_ENERGIZE = FALSE
  /\ serial \in [Axes -> BOOLEAN]
  /\ jin = NoJog
  /\ jout = NoJog
  /\ input = Null
  /\ output = Null
  /\ Idle
  /\ constructor

NextAgg ==
  \/ statusAll
  \/ stopAll
  \/ \E a \in Axes : statusAxis(a)
  \/ \E a \in Axes : stop(a)
  \/ \E g \in 1..Len(aggs) : AggStep(g)
  \/ \E a \in Axes : \E k \in 1..Len(ops[a]) : StartOp(a, k)
  \/ \E a \in Axes : CliExit(a)

FairAgg ==
  /\ InitAgg
  /\ [][NextAgg]_vars
  /\ WF_vars(\E g \in 1..Len(aggs) : AggStep(g))
  /\ \A a \in Axes : WF_vars(\E k \in 1..Len(ops[a]) : StartOp(a, k))
  /\ \A a \in Axes : WF_vars(CliExit(a))

----------------------------------------------------------------------------
\* The jog arithmetic on its own: SpecJog draws a scale factor, a speed, a
\* direction and a current target, and applies lines 169-180 of jog to them.

Scales == (0..6) \cup {250, 450}

SpeedInputs == {[num |-> n, den |-> m] : n \in -1..5, m \in {1, 2, 4}}

Targets == {-42, 0, 1000}

JogInputs ==
  {[k |-> k, sp |-> sp, dir |-> dir, t |-> t, done |-> FALSE, step |-> 0, next |-> 0] :
     k \in Scales, sp \in SpeedInputs, dir \in Dirs, t \in Targets}

InitJog ==
  /\ ALLOW_ENERGIZE = FALSE
  /\ serial = [a \in Axes |-> TRUE]
  /\ jin \in JogInputs
  /\ jout = NoJog
  /\ input = Null
  /\ output = Null
  /\ Idle
  /\ constructor

\* const d = ...; const sp = ...; const step = ...; const next = ...
JogCompute ==
  /\ ~jout.done
  /\ LET step == JogStep(jin.k, jin.sp)
     IN  jout' = [jin EXCEPT !.done = TRUE, !.step = step,
                             !.next = JogNext(jin.t, Sign(jin.dir), step)]
  /\ UNCHANGED <<ALLOW_ENERGIZE, serial, jin, input, output, state, locks, calls, ops, last, inflight,
                 tic, aggs, solvars>>

NextJog == JogCompute

SpecJog == InitJog /\ [][NextJog]_vars

----------------------------------------------------------------------------
\* The solenoid daemon client (imu.js 86-219)

\* A call of a method of the client or an event delivered to it, with the
\* request id it is about (0: none).
Event(type, id) == [type |-> type, id |-> id]

\* A line printed by the subprocess g.
Line(type, id, g, ok, levels) ==
  [type |-> type, id |-> id, gen |-> g, ok |-> ok, levels |-> levels]

\* A daemon subprocess that has not exited.
Alive(g) == daemons[g] # "exited"

\* init() on the instance sol: a handle that is set is kept, otherwise the
\* subprocess spawned now (the next one) becomes the handle.
initProc(sol, ds) ==
  IF sol.proc # 0 THEN sol ELSE [sol EXCEPT !.proc = Len(ds) + 1]

initSpawnAlways(sol, ds) == Append(ds, "starting")

\* spawn("python3", [script]): a new subprocess, which has printed nothing.
initSpawn(sol, ds) ==
  IF sol.proc # 0 THEN ds ELSE Append(ds, "starting")

CanInit == solenoids.proc # 0 \/ Len(daemons) < MaxProcs

init ==
  /\ CanInit
  /\ solenoids' = initProc(solenoids, daemons)
  /\ daemons' = initSpawn(solenoids, daemons)
  /\ ev' = Event("init", 0)
  /\ UNCHANGED <<timers, sends, stdin>>
  /\ UNCHANGED <<config, state, locks, calls, ops, last, inflight, tic, aggs>>

shutdownClearsTimers ==
  /\ solenoids' = [solenoids EXCEPT !.proc = 0, !.ready = FALSE]
  /\ timers' = {}
  /\ ev' = Event("shutdown", 0)
  /\ UNCHANGED <<daemons, sends, stdin>>
  /\ UNCHANGED <<config, state, locks, calls, ops, last, inflight, tic, aggs>>

\* shutdown(): the handle is dropped and the subprocess, if any, is sent
\* SIGTERM; it exits later.
shutdown ==
  /\ solenoids' = [solenoids EXCEPT !.proc = 0, !.ready = FALSE]
  /\ ev' = Event("shutdown", 0)
  /\ UNCHANGED <<timers, daemons, sends, stdin>>
  /\ UNCHANGED <<config, state, locks, calls, ops, last, inflight, tic, aggs>>

\* The promise of a request: settled counts the calls of resolve and reject.
NewSend == [status |-> "pending", err |-> "", settled |-> 0]

\* resolve(msg) / reject(new Error(e)) on the promise of the request id; a
\* promise that is settled stays as it is.
Settle(q, id, status, e) ==
  [q EXCEPT ![id] = IF @.status = "pending"
                    THEN [@ EXCEPT !.status = status, !.err = e, !.settled = @ + 1]
                    ELSE [@ EXCEPT !.settled = @ + 1]]

stdinWriteWhenIdle(log, sol, id) ==
  IF sol.pending = {} THEN Append(log, [gen |-> sol.proc, id |-> id]) ELSE log

stdinWriteFirst(log, sol, id) == <<[gen |-> sol.proc, id |-> id]>> \o log

\* this.proc.stdin.write(payload)
stdinWrite(log, sol, id) == Append(log, [gen |-> sol.proc, id |-> id])

\* #send(cmdObj, timeoutMs): lazy init, a fresh id (makeId; the ids are
\* numbered in the order of the calls), the timer, the pending entry, the
\* write.
send(cmd) ==
  /\ Len(sends) < MaxSends
  /\ CanInit
  /\ LET sol == initProc(solenoids, daemons)
         id == Len(sends) + 1
     IN  /\ daemons' = initSpawn(solenoids, daemons)
         /\ timers' = timers \cup {id}
         /\ solenoids' = [sol EXCEPT !.pending = @ \cup {id}]
         /\ sends' = Append(sends, NewSend)
         /\ stdin' = stdinWrite(stdin, sol, id)
         /\ ev' = Event(cmd, id)
  /\ UNCHANGED <<config, state, locks, calls, ops, last, inflight, tic, aggs>>

allOff == send("alloff")

shoot == send("shoot")

release == send("release")

timerFiresKeepsEntry(sol, id) == sol

\* The callback of setTimeout: this.pending.delete(id)
timerFires(sol, id) == [sol EXCEPT !.pending = @ \ {id}]

Timeout(id) ==
  /\ id \in timers
  /\ timers' = timers \ {id}
  /\ solenoids' = timerFires(solenoids, id)
  /\ sends' = Settle(sends, id, "rejected", "Solenoids timeout")
  /\ ev' = Event("timeout", id)
  /\ UNCHANGED <<daemons, stdin>>
  /\ UNCHANGED <<config, state, locks, calls, ops, last, inflight, tic, aggs>>

resolverLeavesTimer(ts, id) == ts

\* The resolver of a pending entry: clearTimeout(t)
resolverClears(ts, id) == ts \ {id}

\* The ids of the commands written to the subprocess g.
Received(g) == {stdin[i].id : i \in {j \in 1..Len(stdin) : stdin[j].gen = g}}

\* The lines a subprocess may print: ready, fatal, a resp to a command it
\* was sent (ok or not, with or without levels), anything else.
Lines(g) ==
  {Line("ready", 0, g, TRUE, <<0>>), Line("fatal", 0, g, FALSE, Null),
   Line("junk", 0, g, FALSE, Null)}
    \cup {Line("resp", id, g, ok, lv) :
            id \in Received(g), ok \in BOOLEAN, lv \in {Null, <<1>>}}

\* #onStdout on a ready message
onReady(sol, msg) ==
  [sol EXCEPT !.ready = TRUE,
              !.lastStatus = [ready |-> TRUE, lastError |-> "null", levels |-> msg.levels]]

\* #onStdout on a fatal message
onFatal(sol, msg) ==
  [sol EXCEPT !.ready = FALSE,
              !.lastStatus = [ready |-> FALSE, lastError |-> "fatal", levels |-> Null]]

\* #onStdout on a resp message: the entry of msg.id, if any, is deleted; the
\* cached status is replaced when the message carries levels.
onResp(sol, msg) ==
  [sol EXCEPT !.pending = @ \ {msg.id},
              !.lastStatus = IF msg.levels # Null
                             THEN [ready |-> sol.ready,
                                   lastError |-> IF msg.ok THEN "null" ELSE "resp error",
                                   levels |-> msg.levels]
                             ELSE @]

\* #onStdout(chunk) for a chunk holding the line msg of the subprocess g.
onStdout(g, msg) ==
  /\ Alive(g)
  /\ ev' = Event(msg.type, msg.id)
  /\ CASE msg.type = "ready" ->
            /\ solenoids' = onReady(solenoids, msg)
            /\ daemons' = [daemons EXCEPT ![g] = "ready"]
            /\ UNCHANGED <<timers, sends>>
       [] msg.type = "fatal" ->
            /\ solenoids' = onFatal(solenoids, msg)
            /\ daemons' = [daemons EXCEPT ![g] = "fatal"]
            /\ UNCHANGED <<timers, sends>>
       [] msg.type = "resp" ->
            /\ solenoids' = onResp(solenoids, msg)
            /\ IF msg.id \in solenoids.pending
               THEN /\ timers' = resolverClears(timers, msg.id)
                    /\ sends' = IF msg.ok
                                THEN Settle(sends, msg.id, "resolved", "")
                                ELSE Settle(sends, msg.id, "rejected", "resp error")
               ELSE UNCHANGED <<timers, sends>>
            /\ UNCHANGED daemons
       [] OTHER -> UNCHANGED <<solenoids, timers, sends, daemons>>
  /\ UNCHANGED stdin
  /\ UNCHANGED <<config, state, locks, calls, ops, last, inflight, tic, aggs>>

exitHandlerKeepsHandle(sol) ==
  [sol EXCEPT !.ready = FALSE,
              !.lastStatus = [ready |-> FALSE, lastError |-> "daemon exited", levels |-> Null]]

\* The handler of the exit event of a subprocess, installed by init.
exitHandler(sol) ==
  [sol EXCEPT !.ready = FALSE,
              !.lastStatus = [ready |-> FALSE, lastError |-> "daemon exited", levels |-> Null],
              !.proc = 0]

\* The subprocess g exits, of itself or killed.
onExit(g) ==
  /\ Alive(g)
  /\ daemons' = [daemons EXCEPT ![g] = "exited"]
  /\ solenoids' = exitHandler(solenoids)
  /\ ev' = Event("exit", 0)
  /\ UNCHANGED <<timers, sends, stdin>>
  /\ UNCHANGED <<config, state, locks, calls, ops, last, inflight, tic, aggs>>

InitSol ==
  /\ ALLOW_ENERGIZE = FALSE
  /\ serial = [a \in Axes |-> TRUE]
  /\ jin = NoJog
  /\ jout = NoJog
  /\ input = Null
  /\ output = Null
  /\ Idle
  /\ constructor

NextSol ==
  \/ init
  \/ shutdown
  \/ allOff
  \/ shoot
  \/ release
  \/ \E id \in timers : Timeout(id)
  \/ \E g \in 1..Len(daemons) : \E msg \in Lines(g) : onStdout(g, msg)
  \/ \E g \in 1..Len(daemons) : onExit(g)

SpecSol == InitSol /\ [][NextSol]_vars

\* The client with its timers: a timer armed by setTimeout fires after its
\* delay unless clearTimeout is called for it first.  Nothing else is
\* assumed to happen: the subprocess may never print and never exit.
FairSol ==
  /\ InitSol
  /\ [][NextSol]_vars
  /\ \A id \in 1..MaxSends : WF_vars(Timeout(id))

\* The client while shutdown is not called (no SIGINT or SIGTERM arrives).
NextNoShutdown ==
  \/ init
  \/ allOff
  \/ shoot
  \/ release
  \/ \E id \in timers : Timeout(id)
  \/ \E g \in 1..Len(daemons) : \E msg \in Lines(g) : onStdout(g, msg)
  \/ \E g \in 1..Len(daemons) : onExit(g)

SpecNoShutdown == InitSol /\ [][NextNoShutdown]_vars

\* The stdout handler on chunks holding several complete lines: #onStdout
\* handles them one after the other, in one call.

\* Bounds on the number of lines in a chunk and on the number of requests
\* sent in SpecChunk.
MaxLines == 2

MaxChunkSends == 1

\* What #onStdout and the resolvers it calls may change.
Client == [sol |-> solenoids, timers |-> timers, sends |-> sends, daemons |-> daemons]

\* One pass of the loop of #onStdout, on the line msg of the subprocess g: a
\* line that is not JSON (junk) is skipped by the catch, a message of a type
\* other than ready, fatal and resp matches none of the tests.
onLine(c, g, msg) ==
  CASE msg.type = "ready" ->
         [c EXCEPT !.sol = onReady(@, msg), !.daemons[g] = "ready"]
    [] msg.type = "fatal" ->
         [c EXCEPT !.sol = onFatal(@, msg), !.daemons[g] = "fatal"]
    [] msg.type = "resp" ->
         IF msg.id \in c.sol.pending
         THEN [c EXCEPT !.sol = onResp(@, msg),
                        !.timers = resolverClears(@, msg.id),
                        !.sends = IF msg.ok
                                  THEN Settle(@, msg.id, "resolved", "")
                                  ELSE Settle(@, msg.id, "rejected", "resp error")]
         ELSE [c EXCEPT !.sol = onResp(@, msg)]
    [] OTHER -> c

RECURSIVE onLinesStopAtJunk(_, _, _)

onLinesStopAtJunk(c, g, chunk) ==
  IF chunk = << >> \/ chunk[1].type = "junk" THEN c
  ELSE onLinesStopAtJunk(onLine(c, g, chunk[1]), g, Tail(chunk))

RECURSIVE onLines(_, _, _)

\* while ((idx = this.buf.indexOf("\n")) >= 0) { ... }
onLines(c, g, chunk) ==
  IF chunk = << >> THEN c
  ELSE onLines(onLine(c, g, chunk[1]), g, Tail(chunk))

\* The lines of SpecChunk: those of Lines, and a JSON message of another type.
ChunkLines(g) == Lines(g) \cup {Line("other", 0, g, FALSE, Null)}

Chunks(g) == UNION {[1..n -> ChunkLines(g)] : n \in 1..MaxLines}

\* status(): the cached status.
status(sol) == sol.lastStatus

returnStatusEarly(before, after) == status(before)

\* return this.status() in allOff, shoot and release, resumed after the
\* await of #send: the reactions of the promises resolved by a call of
\* #onStdout run when that call has returned (after), not where the resolver
\* was called (before).
returnStatus(before, after) == status(after)

\* #onStdout(chunk) for a chunk of the subprocess g holding the lines chunk.
\* ret is the value returned by the actions whose request it resolved.
onStdoutLines(g, chunk) ==
  /\ Alive(g)
  /\ LET c == onLines(Client, g, chunk)
     IN  /\ solenoids' = c.sol
         /\ timers' = c.timers
         /\ sends' = c.sends
         /\ daemons' = c.daemons
         /\ ev' = [type |-> "stdout", id |-> 0, gen |-> g, lines |-> chunk,
                   ret |-> returnStatus(solenoids, c.sol)]
  /\ UNCHANGED stdin
  /\ UNCHANGED <<config, state, locks, calls, ops, last, inflight, tic, aggs>>

NextChunk ==
  \/ init
  \/ Len(sends) < MaxChunkSends /\ allOff
  \/ Len(sends) < MaxChunkSends /\ shoot
  \/ Len(sends) < MaxChunkSends /\ release
  \/ \E id \in timers : Timeout(id)
  \/ \E g \in 1..Len(daemons) : \E chunk \in Chunks(g) : onStdoutLines(g, chunk)
  \/ \E g \in 1..Len(daemons) : onExit(g)

SpecChunk == InitSol /\ [][NextChunk]_vars

\* The stdout handler on raw data: a chunk is a piece of the output of a
\* subprocess, cut anywhere; #onStdout appends it to this.buf and handles
\* every line completed by a newline.

\* Bounds on the pieces left in the buffer and on the number of requests of
\* SpecBuf.
MaxBuf == 1

MaxBufSends == 1

\* A piece of text written by the subprocess g: the text of the line msg as
\* a whole ("all"), cut in two ("head", "tail"), or some other text without
\* a newline ("frag").  The text does not tell which subprocess wrote it.
Piece(part, msg, g) == [part |-> part, text |-> [msg EXCEPT !.gen = 0], gen |-> g]

Fragment(g) == Piece("frag", Line("junk", 0, g, FALSE, Null), g)

Newline(g) == Piece("newline", Line("junk", 0, g, FALSE, Null), g)

\* The chunks the subprocess g may write: a line with its newline, the head
\* of a line, the rest of a line with its newline, an unterminated fragment.
DataChunks(g) ==
  {<<Piece("all", m, g), Newline(g)>> : m \in Lines(g)}
    \cup {<<Piece("head", m, g)>> : m \in Lines(g)}
    \cup {<<Piece("tail", m, g), Newline(g)>> : m \in Lines(g)}
    \cup {<<Fragment(g)>>}

\* this.buf.indexOf("\n"): the place of the first newline, 0 if there is none.
indexOf(b) ==
  IF \E i \in 1..Len(b) : b[i].part = "newline"
  THEN CHOOSE i \in 1..Len(b) :
         b[i].part = "newline" /\ \A j \in 1..(i - 1) : b[j].part # "newline"
  ELSE 0

\* JSON.parse(line): the message whose text the pieces of the line make up,
\* whoever wrote them; any other text throws and the line is skipped.
parse(line) ==
  IF Len(line) = 1 /\ line[1].part = "all" THEN line[1].text
  ELSE IF /\ Len(line) = 2
          /\ line[1].part = "head" /\ line[2].part = "tail"
          /\ line[1].text = line[2].text
       THEN line[2].text
       ELSE Line("junk", 0, 0, FALSE, Null)

RECURSIVE drain(_, _)

\* The loop of #onStdout on this.buf, in a data event of the subprocess g:
\* the first line is cut off the buffer, an empty line is skipped, any other
\* is parsed and handled.
drain(c, g) ==
  LET b == c.sol.buf
      idx == indexOf(b)
      line == SubSeq(b, 1, idx - 1)
      c1 == [c EXCEPT !.sol.buf = SubSeq(b, idx + 1, Len(b))]
  IN  IF idx = 0 THEN c
      ELSE IF line = << >> THEN drain(c1, g)
      ELSE drain(onLine(c1, g, parse(line)), g)

\* #onStdout(chunk): this.buf += chunk.toString(), then the loop.
onStdoutData(g, chunk) ==
  /\ Alive(g)
  /\ LET c == drain([Client EXCEPT !.sol.buf = @ \o chunk], g)
     IN  /\ Len(c.sol.buf) <= MaxBuf
         /\ solenoids' = c.sol
         /\ timers' = c.timers
         /\ sends' = c.sends
         /\ daemons' = c.daemons
         /\ ev' = [type |-> "data", id |-> 0, gen |-> g, chunk |-> chunk]
  /\ UNCHANGED stdin
  /\ UNCHANGED <<config, state, locks, calls, ops, last, inflight, tic, aggs>>

\* The client on raw data, while shutdown is not called.
NextBuf ==
  \/ init
  \/ Len(sends) < MaxBufSends /\ allOff
  \/ \E id \in timers : Timeout(id)
  \/ \E g \in 1..Len(daemons) : \E chunk \in DataChunks(g) : onStdoutData(g, chunk)
  \/ \E g \in 1..Len(daemons) : onExit(g)

SpecBuf == InitSol /\ [][NextBuf]_vars

\* A call of status() by the HTTP layer.
statusCallStarts ==
  /\ CanInit
  /\ solenoids' = initProc(solenoids, daemons)
  /\ daemons' = initSpawn(solenoids, daemons)
  /\ ev' = [type |-> "status", id |-> 0, ret |-> status(solenoids)]
  /\ UNCHANGED <<timers, sends, stdin>>
  /\ UNCHANGED <<config, state, locks, calls, ops, last, inflight, tic, aggs>>

statusCall ==
  /\ ev' = [type |-> "status", id |-> 0, ret |-> status(solenoids)]
  /\ UNCHANGED <<solenoids, timers, daemons, sends, stdin>>
  /\ UNCHANGED <<config, state, locks, calls, ops, last, inflight, tic, aggs>>

\* The client with calls of status() at any time.
NextStatus ==
  \/ NextNoShutdown
  \/ statusCall

SpecStatus == InitSol /\ [][NextStatus]_vars

\* The translation of shoot and release into daemon commands (imu.js
\* 206-218): SpecPulse draws the arguments of a call and applies it.

\* The arguments of a call of #send: the command object (ms and on absent
\* where the source does not set them) and timeoutMs.
Command(cmd, action, ms, on, timeoutMs) ==
  [cmd |-> cmd, action |-> action, ms |-> ms, on |-> on, timeoutMs |-> timeoutMs]

pulseTimeoutDefault(ms) == 2000

\* pulseMs + 1500
pulseTimeout(ms) == ms + 1500

\* shoot({ on, pulseMs }): on is "true", "false" or of another type, pulseMs
\* is [type, val], a number when typeof pulseMs === "number".
shootCommand(on, pulseMs) ==
  IF pulseMs.type = "number"
  THEN Command("shoot", "pulse", <<pulseMs.val>>, "undefined", pulseTimeout(pulseMs.val))
  ELSE IF on \in {"true", "false"}
  THEN Command("shoot", "set", Null, on, 2000)
  ELSE Command("shoot", "pulse", <<200>>, "undefined", 2000)

\* release({ on, pulseMs })
releaseCommand(on, pulseMs) ==
  IF pulseMs.type = "number"
  THEN Command("release", "pulse", <<pulseMs.val>>, "undefined", pulseTimeout(pulseMs.val))
  ELSE IF on \in {"true", "false"}
  THEN Command("release", "set", Null, on, 2000)
  ELSE Command("release", "pulse", <<500>>, "undefined", 2500)

\* Values of on: a boolean, absent, of another type.
OnInputs == {"true", "false", "undefined", "string"}

\* Values of pulseMs: absent, a string, numbers (negative, zero, the default
\* durations, longer than the default timeouts).
PulseMsInputs ==
  {[type |-> "undefined", val |-> 0], [type |-> "string", val |-> 100]}
    \cup {[type |-> "number", val |-> n] : n \in {-2000, 0, 1, 200, 500, 501, 1500, 5000, 86400000}}

PulseInputs ==
  {[fn |-> fn, on |-> on, pulseMs |-> ms] :
     fn \in {"shoot", "release"}, on \in OnInputs, ms \in PulseMsInputs}

InitPulse ==
  /\ ALLOW_ENERGIZE = FALSE
  /\ serial = [a \in Axes |-> TRUE]
  /\ jin = NoJog
  /\ jout = NoJog
  /\ input \in PulseInputs
  /\ output = Null
  /\ Idle
  /\ constructor

\* The call of shoot or release up to its call of #send.
PulseCall ==
  /\ output = Null
  /\ output' = <<IF input.fn = "shoot" THEN shootCommand(input.on, input.pulseMs)
                 ELSE releaseCommand(input.on, input.pulseMs)>>
  /\ UNCHANGED <<ALLOW_ENERGIZE, serial, jin, jout, input, state, locks, calls, ops, last,
                 inflight, tic, aggs, solvars>>

NextPulse == PulseCall

SpecPulse == InitPulse /\ [][NextPulse]_vars

\* parseStatusText (steppers.js 51-66): SpecParse draws a status text and
\* applies it.  A text is a sequence of characters (strings of length 1).

UpperCase == <<"A", "B", "C", "D", "E", "F", "G", "H", "I", "J", "K", "L", "M", "N", "O", "P", "Q", "R", "S", "T", "U", "V", "W", "X", "Y", "Z">>

LowerCase == <<"a", "b", "c", "d", "e", "f", "g", "h", "i", "j", "k", "l", "m", "n", "o", "p", "q", "r", "s", "t", "u", "v", "w", "x", "y", "z">>

\* The case folding of the flag i, and of toLowerCase().
Lower(c) ==
  IF \E k \in 1..26 : UpperCase[k] = c
  THEN LowerCase[CHOOSE k \in 1..26 : UpperCase[k] = c]
  ELSE c

toLowerCase(cs) == [k \in 1..Len(cs) |-> Lower(cs[k])]

\* \s and \d
IsSpace(c) == c \in {" ", "\n", "\t"}

DigitValue == [c \in {"0", "1", "2", "3", "4", "5", "6", "7", "8", "9"} |->
                 CASE c = "0" -> 0 [] c = "1" -> 1 [] c = "2" -> 2 [] c = "3" -> 3
                   [] c = "4" -> 4 [] c = "5" -> 5 [] c = "6" -> 6 [] c = "7" -> 7
                   [] c = "8" -> 8 [] c = "9" -> 9]

IsDigit(c) == c \in DOMAIN DigitValue

\* The literal lit of a pattern matches the text at i, case ignored.
LiteralAt(text, i, lit) ==
  /\ i + Len(lit) - 1 <= Len(text)
  /\ \A k \in 1..Len(lit) : Lower(text[i + k - 1]) = Lower(lit[k])

\* The end of the longest run of characters of one class from j on: the
\* index of the first character that is not of the class.
RunEnd(text, j, class) ==
  CHOOSE e \in j..(Len(text) + 1) :
    /\ \A k \in j..(e - 1) : IF class = "space" THEN IsSpace(text[k]) ELSE IsDigit(text[k])
    /\ e = Len(text) + 1 \/ ~(IF class = "space" THEN IsSpace(text[e]) ELSE IsDigit(text[e]))

\* The capture group at j: (-?\d+) for the kind "int", (Yes|No) for the kind
\* "yesno"; the captured characters, none when it does not match.
Group(text, j, kind) ==
  IF kind = "int"
  THEN LET ds == IF j <= Len(text) /\ text[j] = "-" THEN j + 1 ELSE j
           e == RunEnd(text, ds, "digit")
       IN  IF e = ds THEN Null ELSE <<SubSeq(text, j, e - 1)>>
  ELSE IF LiteralAt(text, j, <<"Y", "e", "s">>) THEN <<SubSeq(text, j, j + 2)>>
  ELSE IF LiteralAt(text, j, <<"N", "o">>) THEN <<SubSeq(text, j, j + 1)>>
  ELSE Null

\* The pattern /lit\s*(group)/i matches the text at i: its capture, or none.
MatchAt(text, i, lit, kind) ==
  IF LiteralAt(text, i, lit)
  THEN Group(text, RunEnd(text, i + Len(lit), "space"), kind)
  ELSE Null

\* text.match(/lit\s*(group)/i): the capture of the leftmost match, or none.
match(text, lit, kind) ==
  LET is == {i \in 1..Len(text) : MatchAt(text, i, lit, kind) # Null}
  IN  IF is = {} THEN Null
      ELSE MatchAt(text, CHOOSE i \in is : \A j \in is : i <= j, lit, kind)

RECURSIVE Decimal(_)

\* The number written by a sequence of digits.
Decimal(ds) ==
  IF ds = << >> THEN 0
  ELSE 10 * Decimal(SubSeq(ds, 1, Len(ds) - 1)) + DigitValue[ds[Len(ds)]]

parseIntUnsigned(cs) == IF cs[1] = "-" THEN Decimal(Tail(cs)) ELSE Decimal(cs)

\* parseInt(m[1], 10) on a capture of (-?\d+)
parseInt(cs) == IF cs[1] = "-" THEN 0 - Decimal(Tail(cs)) ELSE Decimal(cs)

\* m[1].toLowerCase() === "yes"
isYes(cs) == toLowerCase(cs) = <<"y", "e", "s">>

CurrentPositionLit == <<"C", "u", "r", "r", "e", "n", "t", " ", "p", "o", "s", "i", "t", "i", "o", "n", ":">>

EnergizedLit == <<"E", "n", "e", "r", "g", "i", "z", "e", "d", ":">>

SafeStartLit == <<"S", "a", "f", "e", " ", "s", "t", "a", "r", "t", ":">>

ErrorsStoppingLit == <<"E", "r", "r", "o", "r", "s", " ", "c", "u", "r", "r", "e", "n", "t", "l", "y", " ", "s", "t", "o", "p", "p", "i", "n", "g", " ", "t", "h", "e", " ", "m", "o", "t", "o", "r", ":">>

\* parseStatusText(text): the object out, an absent field being Null.
parseStatusText(text) ==
  LET mPos == match(text, CurrentPositionLit, "int")
      mE == match(text, EnergizedLit, "yesno")
      mSS == match(text, SafeStartLit, "yesno")
      mErr == match(text, ErrorsStoppingLit, "yesno")
  IN  [currentPosition |-> IF mPos # Null THEN <<parseInt(Val(mPos))>> ELSE Null,
       energized       |-> IF mE # Null THEN <<isYes(Val(mE))>> ELSE Null,
       safeStart       |-> IF mSS # Null THEN <<isYes(Val(mSS))>> ELSE Null,
       errorsStopping  |-> IF mErr # Null THEN <<isYes(Val(mErr))>> ELSE Null]

\* Bound on the number of lines of a status text.
MaxFields == 2

\* The labels and the values of the lines of the status texts drawn: the
\* four labels of the patterns (one of them in capitals too) and another
\* one; numbers, yes and no in several spellings, and values no pattern
\* accepts.
Labels ==
  {<<"C", "u", "r", "r", "e", "n", "t", " ", "p", "o", "s", "i", "t", "i", "o", "n">>,
   <<"C", "U", "R", "R", "E", "N", "T", " ", "P", "O", "S", "I", "T", "I", "O", "N">>,
   <<"E", "n", "e", "r", "g", "i", "z", "e", "d">>,
   <<"S", "a", "f", "e", " ", "s", "t", "a", "r", "t">>,
   <<"E", "r", "r", "o", "r", "s", " ", "c", "u", "r", "r", "e", "n", "t", "l", "y", " ", "s", "t", "o", "p", "p", "i", "n", "g", " ", "t", "h", "e", " ", "m", "o", "t", "o", "r">>,
   <<"T", "a", "r", "g", "e", "t", " ", "p", "o", "s", "i", "t", "i", "o", "n">>}

Values ==
  {<<"-", "4", "2">>,
   <<"7">>,
   <<"N", "/", "A">>,
   <<"Y", "e", "s">>,
   <<"N", "o">>,
   <<"y", "e", "s">>,
   <<"-">>,
   <<>>}

StatusLines == {[label |-> l, value |-> v] : l \in Labels, v \in Values}

ParseInputs == UNION {[1..n -> StatusLines] : n \in 0..MaxFields}

\* The text of a line, "label: value\n", and of a sequence of lines.
LineText(ln) == ln.label \o <<":", " ">> \o ln.value \o <<"\n">>

RECURSIVE TextOf(_)

TextOf(lns) == IF lns = << >> THEN << >> ELSE LineText(lns[1]) \o TextOf(Tail(lns))

InitParse ==
  /\ ALLOW_ENERGIZE = FALSE
  /\ serial = [a \in Axes |-> TRUE]
  /\ jin = NoJog
  /\ jout = NoJog
  /\ input \in ParseInputs
  /\ output = Null
  /\ Idle
  /\ constructor

\* const parsed = parseStatusText(stdout)
ParseCall ==
  /\ output = Null
  /\ output' = <<parseStatusText(TextOf(input))>>
  /\ UNCHANGED <<ALLOW_ENERGIZE, serial, jin, jout, input, state, locks, calls, ops, last,
                 inflight, tic, aggs, solvars>>

NextParse == ParseCall

SpecParse == InitParse /\ [][NextParse]_vars

----------------------------------------------------------------------------
\* Properties

Abs(x) == IF x < 0 THEN -x ELSE x

InFlightOn(a) == {inv \in inflight : inv.axis = a}

\* Invocations of axis a that exit, and that start, in a step.
Exited(a) == {inv \in inflight : inv.axis = a /\ inv \notin inflight'}

StartedNow(a) == {inv \in inflight' : inv.axis = a /\ inv \notin inflight}

OfCall(invs, i) == {inv \in invs : inv.op = i}

\* The call o of axis a after the step, if it has not settled.
After(a, o) == ops'[a][CHOOSE k \in 1..Len(ops'[a]) : ops'[a][k].id = o.id]

SettlesNow(a, o) == ~LiveIn(ops'[a], o.id)

\* The runTic awaited by the call o of axis a resolves in this step.
AcceptedNow(a, o) ==
  /\ OfCall(Exited(a), o.id) # {}
  /\ IF SettlesNow(a, o) THEN last'.status = "resolved" ELSE After(a, o).acc

LiveCalls(a) == {ops[a][k] : k \in 1..Len(ops[a])}

\* C1: on each axis ticcmd sees the calls in submission order: an invocation
\* starts only when no invocation of another call of the axis is in flight,
\* and never for a call submitted before the one whose invocation it saw last.
Thm_C1_SubmissionOrder ==
  [][\A a \in Axes : \A inv \in StartedNow(a) :
       /\ inv.op >= tic[a].lastOp
       /\ \A other \in InFlightOn(a)' : other.op = inv.op]_vars

\* The second call of an axis runs after the first has finished, a third
\* one, submitted meanwhile, waiting behind it.
Wit_C1_SubmissionOrder ==
  \E a \in Axes :
    /\ \E inv \in InFlightOn(a) : inv.op = 2
    /\ tic[a].lastOp = 2
    /\ last.axis = a /\ last.id = 1 /\ last.kind = "status" /\ last.status = "resolved"
    /\ Len(ops[a]) = 2 /\ ops[a][2].status = "queued"

\* C2: at most one ticcmd invocation per axis is in flight.
Thm_C2_OneInFlight == \A a \in Axes : Cardinality(InFlightOn(a)) <= 1

\* An invocation in flight on an axis with another call queued behind it,
\* submitted by stopAll.
Wit_C2_OneInFlight ==
  \E a \in Axes :
    /\ Cardinality(InFlightOn(a)) = 1
    /\ Len(ops[a]) >= 2
    /\ \E o \in LiveCalls(a) : o.parent # 0 /\ o.kind = "stop"

\* C3: a call settles through its own work only (thrown before withLock,
\* started, or its own invocation exiting, a failure carrying the error of
\* that invocation), and every call on the chain of an axis settles, whatever
\* the outcome of the calls before it.
Thm_C3_ChainSurvivesFailure ==
  /\ [][\A a \in Axes : \A o \in LiveCalls(a) :
          SettlesNow(a, o) =>
            /\ last'.axis = a /\ last'.id = o.id /\ last'.kind = o.kind
            /\ \A other \in LiveCalls(a) \ {o} : ~SettlesNow(a, other)
            /\ \/ o.status = "queued" /\ ReadyToStart(a, CHOOSE k \in 1..Len(ops[a]) : ops[a][k] = o)
               \/ /\ o.status = "running"
                  /\ \E inv \in OfCall(Exited(a), o.id) :
                       last'.status = "rejected" => last'.err = inv.cmd]_vars
  /\ \A a \in Axes : \A i \in 1..MaxOps : Live(a, i) ~> ~Live(a, i)

\* A call rejected by its own failed invocation, and the call submitted
\* behind it running.
Wit_C3_ChainSurvivesFailure ==
  \E a \in Axes :
    /\ last.axis = a /\ last.id = 1 /\ last.status = "rejected" /\ last.err = "--status"
    /\ \E o \in LiveCalls(a) : o.id = 2 /\ o.status = "running"

\* C4: a jog that starts while the axis is not enabled fails at once, starts
\* no invocation and leaves the axis state as it is.
Thm_C4_JogRefused ==
  [][\A a \in Axes : \A o \in LiveCalls(a) :
       (o.kind = "jog" /\ o.status = "queued" /\ ~state[a].enabled
          /\ (SettlesNow(a, o) \/ After(a, o).status # "queued"))
       => /\ SettlesNow(a, o)
          /\ last'.id = o.id /\ last'.axis = a
          /\ last'.status = "rejected" /\ last'.err = "not enabled"
          /\ inflight' = inflight
          /\ tic' = tic
          /\ state' = state]_vars

\* A jog refused on an axis that may be energized and has a device handle.
Wit_C4_JogRefused ==
  /\ last.kind = "jog" /\ last.status = "rejected" /\ last.err = "not enabled"
  /\ ALLOW_ENERGIZE /\ serial[last.axis]
  /\ state[last.axis].targetPos = Null

\* C5: without TIC_ALLOW_ENERGIZE no enable is queued, no --energize is
\* started or accepted, and no axis is enabled.
Thm_C5_EnergizeGate ==
  ~ALLOW_ENERGIZE =>
    \A a \in Axes :
      /\ ~state[a].enabled
      /\ tic[a].power # "--energize"
      /\ \A o \in LiveCalls(a) : o.kind # "enable"
      /\ \A inv \in InFlightOn(a) : inv.cmd \notin {"--energize", "--exit-safe-start"}

\* enable rejected by the gate, on an axis with a device handle.
Wit_C5_EnergizeGate ==
  /\ ~ALLOW_ENERGIZE
  /\ last.kind = "enable" /\ last.status = "rejected" /\ last.err = "Energize disabled"
  /\ serial[last.axis]

\* C6 as stated: every queued disable ends with enabled = false.
Orig_C6_DisableAlwaysClears ==
  [][\A a \in Axes : \A o \in LiveCalls(a) :
       (o.kind = "disable" /\ SettlesNow(a, o)) => ~state'[a].enabled]_vars

\* C6, amended: a queued disable settles only after --deenergize was issued:
\* a failure of halt (primary or fallback) never settles it but leads to
\* --deenergize; enabled becomes false when --deenergize is accepted and is
\* unchanged when it fails, disable then failing with that command's error.
Thm_C6_DisableDeenergizes ==
  [][\A a \in Axes : \A o \in LiveCalls(a) :
       o.kind = "disable" =>
         /\ SettlesNow(a, o) => o.pc \in {"de", "ds"}
         /\ (o.pc \in {"h1", "h2", "h3"} /\ OfCall(Exited(a), o.id) # {})
              => ~SettlesNow(a, o) /\ After(a, o).pc \in {"h2", "h3", "de"}
         /\ (o.pc # "de" /\ ~SettlesNow(a, o) /\ After(a, o).pc = "de")
              => \E inv \in OfCall(StartedNow(a), o.id) : inv.cmd = "--deenergize"
         /\ (o.pc = "de" /\ OfCall(Exited(a), o.id) # {}) =>
              IF AcceptedNow(a, o)
              THEN ~state'[a].enabled /\ ~SettlesNow(a, o)
              ELSE /\ state'[a] = state[a]
                   /\ SettlesNow(a, o) /\ last'.status = "rejected" /\ last'.err = "--deenergize"
         /\ (o.pc = "ds" /\ SettlesNow(a, o)) => ~state'[a].enabled]_vars

\* --deenergize in flight for a disable whose halt has just failed, on an
\* enabled axis.
Wit_C6_DisableDeenergizes ==
  \E a \in Axes : \E o \in LiveCalls(a) :
    /\ o.kind = "disable" /\ o.pc = "de" /\ ~o.acc
    /\ state[a].enabled
    /\ \E inv \in InFlightOn(a) : inv.op = o.id /\ inv.cmd = "--deenergize"

\* C7: when --halt-and-hold fails halt reads the status; when that read
\* succeeds it commands a hold at the reported position (0 if none is
\* reported), the cached target still unchanged; when the read fails, stop
\* fails with the error of the read and no position command is started.
Thm_C7_HaltFallback ==
  [][\A a \in Axes : \A o \in LiveCalls(a) :
       (o.kind \in {"stop", "disable"} /\ OfCall(Exited(a), o.id) # {}) =>
         /\ o.pc = "h1" =>
              IF AcceptedNow(a, o)
              THEN OfCall(StartedNow(a), o.id) \subseteq {inv \in inflight' : inv.cmd = "--deenergize"}
              ELSE /\ ~SettlesNow(a, o)
                   /\ After(a, o).pc = "h2"
                   /\ \A inv \in OfCall(InFlightOn(a)', o.id) : inv.cmd = "--status"
                   /\ OfCall(StartedNow(a), o.id) # {}
         /\ o.pc = "h2" =>
              IF AcceptedNow(a, o)
              THEN /\ ~SettlesNow(a, o)
                   /\ After(a, o).pc = "h3"
                   /\ OfCall(StartedNow(a), o.id) # {}
                   /\ \A inv \in OfCall(InFlightOn(a)', o.id) :
                        /\ inv.cmd = "--position"
                        /\ inv.arg = <<CurOf(Val(After(a, o).rep))>>
                   /\ state'[a] = state[a]
              ELSE /\ \A inv \in OfCall(StartedNow(a), o.id) : inv.cmd # "--position"
                   /\ o.kind = "stop" =>
                        /\ SettlesNow(a, o)
                        /\ last'.status = "rejected" /\ last'.err = "--status"]_vars

\* A hold at the reported position 1000 in flight on an axis whose target is
\* not seeded, the stop of the other axis having failed with the error of its
\* fallback read.
Wit_C7_HaltFallback ==
  \E a \in Axes :
    /\ \E inv \in InFlightOn(a) : inv.at = "h3" /\ inv.cmd = "--position" /\ inv.arg = <<1000>>
    /\ state[a].targetPos = Null
    /\ last.kind = "stop" /\ last.status = "rejected" /\ last.err = "--status"

NearestInt(num, den) ==
  CHOOSE r \in 0..(num \div den + 1) : 2 * den * r - den <= 2 * num /\ 2 * num < 2 * den * r + den

ExpectedStep(k, sp) ==
  IF sp.num <= 0 THEN 1
  ELSE IF sp.num >= sp.den THEN Max(1, k)
  ELSE Max(1, NearestInt(k * sp.num, sp.den))

\* C9: a jog issues a position command for t + d * max(1, round(k * s)), t
\* being the (seeded) target, d the sign of dir and s the clamped speed; when
\* the command is accepted the target is that value and the call returns it
\* with the step.  With k = 250, s = 0.5, t = 1000: step 125, target 1125
\* (d = 1) or 875 (d = -1).
Thm_C9_JogTarget ==
  [][\A a \in Axes : \A o \in LiveCalls(a) :
       o.kind = "jog" =>
         /\ o.d \in {-1, 0, 1}
         /\ (o.pc # "j2" /\ ~SettlesNow(a, o) /\ After(a, o).pc = "j2") =>
              LET t == Val(state'[a].targetPos)
                  next == t + o.d * ExpectedStep(stepsPerTick[a], o.sp)
              IN  /\ OfCall(StartedNow(a), o.id) # {}
                  /\ \A inv \in OfCall(InFlightOn(a)', o.id) :
                       inv.cmd = "--position" /\ inv.arg = <<next>>
                  /\ (a = "yaw" /\ o.sp = [num |-> 1, den |-> 2] /\ t = 1000)
                       => next = 1000 + o.d * 125
         /\ (o.pc = "j2" /\ AcceptedNow(a, o)) =>
              LET t == Val(state[a].targetPos)
                  step == ExpectedStep(stepsPerTick[a], o.sp)
              IN  /\ SettlesNow(a, o)
                  /\ last'.status = "resolved"
                  /\ last'.step = step
                  /\ last'.next = t + o.d * step
                  /\ state'[a].targetPos = <<t + o.d * step>>]_vars

\* Two jogs of yaw at speed 0.5 from the seeded target 1000: 1125, then 1250.
Wit_C9_JogTarget ==
  /\ last.kind = "jog" /\ last.axis = "yaw" /\ last.status = "resolved"
  /\ last.step = 125 /\ last.next = 1250
  /\ state["yaw"].targetPos = <<1250>>

\* C10: for every speed01 (clamped to [0,1]) and every non-negative scale
\* factor the step of jog is at least 1 and at most max(1, stepsPerTick), so
\* a jog with a non-zero direction moves the target by at least 1 and by no
\* more than one full-scale step.
Thm_C10_StepRange ==
  jout.done =>
    /\ jout.step >= 1
    /\ jout.step <= Max(1, jout.k)
    /\ (jout.dir # 0 => Abs(jout.next - jout.t) >= 1 /\ Abs(jout.next - jout.t) <= Max(1, jout.k))
    /\ (jout.dir = 0 => jout.next = jout.t)

\* speed01 = 0 on a non-zero direction: the step is 1, not 0.
Wit_C10_ZeroSpeed ==
  /\ jout.done /\ jout.sp.num = 0 /\ jout.k = 250 /\ jout.dir = 1
  /\ jout.step = 1 /\ jout.next = jout.t + 1

\* The call o of axis a starts in this step.
StartsNow(a, o) ==
  o.status = "queued" /\ (SettlesNow(a, o) \/ After(a, o).status # "queued")

\* The position a status payload seeds the target with: the reported
\* current position, 0 when none is reported.
SeedOf(rep) == IF Val(rep) = Null THEN 0 ELSE Val(Val(rep))

\* C11: ensureTargetPos (in jog and in enable) starts no invocation and
\* leaves the target as it is when the target is set; when it is not set it
\* starts exactly one status read, on whose success the target becomes the
\* reported position (0 if none is reported) and on whose failure the target
\* stays unset, the call failing with the error of the read.  A target that
\* is set is never unset again.
Thm_C11_EnsureTargetPos ==
  [][\A a \in Axes :
       /\ state[a].targetPos # Null => state'[a].targetPos # Null
       /\ \A o \in LiveCalls(a) :
            /\ (o.kind = "jog" /\ StartsNow(a, o) /\ state[a].enabled) =>
                 IF state[a].targetPos # Null
                 THEN /\ \A inv \in OfCall(StartedNow(a), o.id) : inv.cmd = "--position"
                      /\ state'[a] = state[a]
                 ELSE /\ ~SettlesNow(a, o) /\ After(a, o).pc = "j1"
                      /\ Cardinality(OfCall(StartedNow(a), o.id)) = 1
                      /\ \A inv \in OfCall(StartedNow(a), o.id) : inv.cmd = "--status"
                      /\ state'[a] = state[a]
            /\ (o.kind = "enable" /\ o.pc = "en2" /\ AcceptedNow(a, o)) =>
                 /\ ~SettlesNow(a, o)
                 /\ After(a, o).pc = (IF state[a].targetPos # Null THEN "en4" ELSE "en3")
                 /\ Cardinality(OfCall(StartedNow(a), o.id)) = 1
                 /\ state'[a].targetPos = state[a].targetPos
            /\ (o.pc \in {"j1", "en3"} /\ OfCall(Exited(a), o.id) # {}) =>
                 /\ state[a].targetPos = Null
                 /\ \A inv \in OfCall(Exited(a), o.id) : inv.cmd = "--status"
                 /\ IF AcceptedNow(a, o)
                    THEN /\ ~SettlesNow(a, o)
                         /\ After(a, o).pc \notin {"j1", "en3"}
                         /\ \A inv \in OfCall(StartedNow(a), o.id) :
                              o.pc = "j1" => inv.cmd = "--position"
                         /\ state'[a].targetPos = <<SeedOf(After(a, o).rep)>>
                    ELSE /\ state'[a].targetPos = Null
                         /\ SettlesNow(a, o)
                         /\ last'.status = "rejected" /\ last'.err = "--status"]_vars

\* A jog that seeded the target of an enabled axis from a status read
\* reporting no position: the target is 0 and the jog moves from there.
Wit_C11_EnsureTargetPos ==
  \E a \in Axes : \E o \in LiveCalls(a) :
    /\ o.kind = "jog" /\ o.pc = "j2" /\ o.rep = <<Null>>
    /\ state[a].targetPos = <<0>>
    /\ state[a].enabled

\* The calls an aggregate g is awaiting.
ChildrenOf(g) == UNION {{o \in LiveCalls(a) : o.parent = g} : a \in Axes}

AggDone(g) == aggs[g].idx = Len(AxisOrder) + 1

\* C12: statusAll and stopAll attempt the axes one after the other, an
\* aggregate in progress awaiting exactly one call, on the axis it has come
\* to; whatever the outcome of that call (a missing device handle included)
\* its entry is recorded, ok with no error for a fulfilled call, not ok with
\* the error of that call for a rejected one, and the next axis is attempted;
\* every aggregate returns, with an entry for every axis.
Thm_C12_AggregatesNeverFail ==
  /\ [](\A g \in 1..Len(aggs) :
          IF AggDone(g)
          THEN /\ ChildrenOf(g) = {}
               /\ \A a \in Axes : aggs[g].out[a].done
               /\ \A a \in Axes : aggs[g].out[a].ok <=> aggs[g].out[a].error = ""
          ELSE /\ Cardinality(ChildrenOf(g)) = (IF aggs[g].got = Null THEN 1 ELSE 0)
               /\ \A o \in ChildrenOf(g) :
                    o.axis = AxisOrder[aggs[g].idx] /\ o.kind = aggs[g].sub
               /\ \A i \in 1..Len(AxisOrder) :
                    aggs[g].out[AxisOrder[i]].done <=> i < aggs[g].idx)
  /\ [][\A g \in 1..Len(aggs) :
          /\ \A o \in ChildrenOf(g) :
               SettlesNow(o.axis, o) =>
                 /\ last'.axis = o.axis /\ last'.id = o.id
                 /\ aggs'[g] = [aggs[g] EXCEPT !.got = <<last'>>]
          /\ aggs'[g].idx # aggs[g].idx =>
               /\ aggs[g].got # Null
               /\ aggs'[g].idx = aggs[g].idx + 1
               /\ LET a == AxisOrder[aggs[g].idx]
                      o == Val(aggs[g].got)
                  IN  /\ o.axis = a
                      /\ o.status = "rejected" => o.err # ""
                      /\ aggs'[g].out =
                           [aggs[g].out EXCEPT ![a] =
                              [done |-> TRUE, ok |-> o.status = "resolved",
                               error |-> IF o.status = "rejected" THEN o.err ELSE ""]]]_vars
  /\ \A g \in 1..MaxOps : (Len(aggs) >= g) ~> (Len(aggs) >= g /\ AggDone(g))

\* stopAll returned: yaw, without a device handle, failed with that error;
\* pitch, attempted after it, was stopped through the fallback of halt.
Wit_C12_AggregatesNeverFail ==
  \E g \in 1..Len(aggs) :
    /\ aggs[g].kind = "stopAll" /\ AggDone(g)
    /\ ~aggs[g].out["yaw"].ok /\ aggs[g].out["yaw"].error = "Missing serial"
    /\ aggs[g].out["pitch"].ok
    /\ state["pitch"].targetPos = <<1000>>

\* The call o has come to the head of the chain of its own axis a.
OwnTurn(a, o) ==
  o.status = "queued" /\ (IF o.pred = 0 THEN TRUE ELSE ~LiveIn(ops[a], o.pred))

\* What a step may change of an axis.
AxisView(a) == <<ops[a], locks[a], calls[a], state[a], InFlightOn(a), tic[a]>>

\* C13: the chains of the axes are independent.  A call waits for calls of
\* its own axis only: once it is at the head of its own chain it starts
\* before any invocation of any axis exits, so it waits for no queued or
\* in-flight work of the other axis; and a step of one axis leaves the chain,
\* the state and the invocations of the other axis as they are.
Thm_C13_AxesIndependent ==
  [][/\ (\E a \in Axes : \E o \in LiveCalls(a) : OwnTurn(a, o))
          => \A b \in Axes : Exited(b) = {}
     /\ \A a \in Axes : \A o \in LiveCalls(a) :
          StartsNow(a, o) => OwnTurn(a, o)
     /\ \A a \in Axes : \A b \in Axes \ {a} :
          AxisView(a)' # AxisView(a) => AxisView(b)' = AxisView(b)]_vars

\* An invocation of yaw and an invocation of pitch in flight together.
Wit_C13_AxesIndependent ==
  /\ \E inv \in InFlightOn("yaw") : inv.cmd = "--energize"
  /\ \E inv \in InFlightOn("pitch") : inv.cmd = "--status"
  /\ \A a \in Axes : \E o \in LiveCalls(a) : o.status = "running"

\* The requests that are not settled, and the moment of a call of #send.
Unsettled == {i \in 1..Len(sends) : sends[i].status = "pending"}

SendsNow == Len(sends') > Len(sends)

\* A promise rejected, once, with the timeout error.
TimeoutRejected == [status |-> "rejected", err |-> "Solenoids timeout", settled |-> 1]

TimedOut(i) == sends[i] = TimeoutRejected

\* C14: the timeout of a request removes its pending entry and rejects it
\* with the timeout error, touching no other request; a resp whose id has no
\* pending entry calls no resolver: no promise, no entry and no timer
\* changes; a resp never settles or removes a request other than the one
\* whose id it carries; and a request that timed out is never settled again.
Thm_C14_LateResponseDropped ==
  [][/\ ev'.type = "timeout" =>
          /\ ev'.id \notin solenoids'.pending
          /\ ev'.id \notin timers'
          /\ sends'[ev'.id] = TimeoutRejected
          /\ \A j \in 1..Len(sends) : j # ev'.id =>
               sends'[j] = sends[j] /\ (j \in solenoids'.pending <=> j \in solenoids.pending)
     /\ (ev'.type = "resp" /\ ev'.id \notin solenoids.pending) =>
          /\ sends' = sends
          /\ solenoids'.pending = solenoids.pending
          /\ timers' = timers
     /\ ev'.type = "resp" =>
          \A j \in 1..Len(sends) : j # ev'.id =>
            sends'[j] = sends[j] /\ (j \in solenoids'.pending <=> j \in solenoids.pending)
     /\ \A i \in 1..Len(sends) : TimedOut(i) => TimedOut(i)']_vars

\* A resp for a request that timed out has just been handled, a later
\* request still being pending.
Wit_C14_LateResponseDropped ==
  \E i \in 1..Len(sends) : \E j \in 1..Len(sends) :
    /\ i < j
    /\ TimedOut(i)
    /\ ev = Event("resp", i)
    /\ sends[j].status = "pending" /\ j \in solenoids.pending /\ j \in timers

\* C15: the pending table holds exactly the requests that are not settled,
\* each with its timer armed and no other timer armed; a request is settled
\* by the first of its resp and its timeout and by nothing else, resolve or
\* reject being called exactly once for it.
Thm_C15_SettledOnce ==
  /\ [](/\ solenoids.pending = Unsettled
        /\ timers = Unsettled
        /\ \A i \in 1..Len(sends) :
             sends[i].settled = (IF i \in Unsettled THEN 0 ELSE 1))
  /\ [][\A i \in 1..Len(sends) :
          IF i \in Unsettled
          THEN /\ (ev'.id = i /\ ev'.type \in {"resp", "timeout"}) => sends'[i].status # "pending"
               /\ sends'[i].status # "pending" =>
                    /\ ev'.id = i
                    /\ i \notin timers'
                    /\ \/ ev'.type = "timeout" /\ TimedOut(i)'
                       \/ /\ ev'.type = "resp"
                          /\ sends'[i].settled = 1
                          /\ \/ sends'[i].status = "resolved"
                             \/ sends'[i].status = "rejected" /\ sends'[i].err = "resp error"
          ELSE sends'[i] = sends[i]]_vars

\* One request resolved by its resp, one rejected by its timeout, one
\* pending with its timer armed, after the exit of the subprocess.
Wit_C15_SettledOnce ==
  /\ \E i \in 1..Len(sends) : sends[i].status = "resolved"
  /\ \E i \in 1..Len(sends) : TimedOut(i)
  /\ \E i \in 1..Len(sends) : i \in Unsettled /\ i \in timers
  /\ ev.type = "exit"

\* The commands in flight: written and neither answered nor timed out.
InFlightCmds == {stdin[k].id : k \in 1..Len(stdin)} \cap Unsettled

Thm_C17_WriteOrder ==
  /\ [](/\ Len(stdin) = Len(sends)
        /\ \A k \in 1..Len(stdin) : stdin[k].id = k)
  /\ [][IF SendsNow
        THEN /\ stdin' = Append(stdin, [gen |-> solenoids'.proc, id |-> Len(sends')])
             /\ solenoids'.proc \in 1..Len(daemons')
             /\ daemons'[solenoids'.proc] # "exited"
        ELSE stdin' = stdin]_vars

\* Three commands written across a restart of the daemon, the first call
\* having timed out and the second having been answered.
Wit_C17_WriteOrder ==
  /\ Len(stdin) = 3
  /\ stdin[1].gen = 1 /\ stdin[3].gen = 2
  /\ TimedOut(1)
  /\ sends[2].status = "resolved"
  /\ sends[3].status = "pending"

\* C18 as stated: a fatal message marks the client not ready and its error
\* is cached, and no command is written to a subprocess that has reported
\* fatal (a new subprocess is spawned first).
Orig_C18_NoCommandAfterFatal ==
  [][/\ ev'.type = "fatal" =>
          /\ ~solenoids'.ready
          /\ solenoids'.lastStatus = [ready |-> FALSE, lastError |-> "fatal", levels |-> Null]
     /\ \A k \in 1..Len(stdin') :
          k > Len(stdin) => daemons'[stdin'[k].gen] # "fatal"]_vars

\* C19: the exit handler of a subprocess marks the client not ready, caches
\* ready = false with the exit error and clears the handle, whatever the
\* state of the client; and a call of #send that finds no handle spawns a
\* new subprocess, which becomes the handle, and writes its command to it.
Thm_C19_ExitThenLazyRestart ==
  [][/\ ev'.type = "exit" =>
          /\ ~solenoids'.ready
          /\ solenoids'.lastStatus =
               [ready |-> FALSE, lastError |-> "daemon exited", levels |-> Null]
          /\ solenoids'.proc = 0
          /\ solenoids'.pending = solenoids.pending
     /\ (SendsNow /\ solenoids.proc = 0) =>
          /\ Len(daemons') = Len(daemons) + 1
          /\ daemons'[Len(daemons')] = "starting"
          /\ \A g \in 1..Len(daemons) : daemons'[g] = daemons[g]
          /\ solenoids'.proc = Len(daemons')
          /\ stdin'[Len(stdin')] = [gen |-> Len(daemons'), id |-> Len(sends')]]_vars

\* The first subprocess exited while ready with a request pending; the next
\* call of #send spawned the second one and wrote to it, the cache still
\* showing the exit.
Wit_C19_ExitThenLazyRestart ==
  /\ daemons = <<"exited", "starting">>
  /\ solenoids.proc = 2
  /\ Len(stdin) = 2 /\ stdin[1].gen = 1 /\ stdin[2].gen = 2
  /\ solenoids.pending = {1, 2}
  /\ solenoids.lastStatus.lastError = "daemon exited"
  /\ ev = Event("release", 2)

\* The subprocesses that have not exited.
Running == {g \in 1..Len(daemons) : Alive(g)}

\* C20: a call of init that finds a handle spawns nothing and changes
\* nothing of the client, and so does the lazy start of #send; a subprocess
\* is spawned only when there is no handle, so that, shutdown not being
\* called, at most one subprocess runs at any time however many calls of
\* init and #send are made, and it is the one the handle names.
Thm_C20_InitIdempotent ==
  /\ [](/\ Cardinality(Running) <= 1
        /\ \A g \in Running : solenoids.proc = g
        /\ solenoids.proc # 0 => solenoids.proc \in Running)
  /\ [][/\ (ev'.type = "init" /\ solenoids.proc # 0) =>
             UNCHANGED <<solenoids, daemons, timers, sends, stdin>>
        /\ (SendsNow /\ solenoids.proc # 0) =>
             daemons' = daemons /\ solenoids'.proc = solenoids.proc
        /\ Len(daemons') > Len(daemons) =>
             /\ solenoids.proc = 0
             /\ Running = {}
             /\ ev'.type \in {"init", "alloff", "shoot", "release"}]_vars

\* init called while the second subprocess runs, ready, with a request
\* pending: nothing is spawned.
Wit_C20_InitIdempotent ==
  /\ ev.type = "init"
  /\ daemons = <<"exited", "ready">>
  /\ solenoids.proc = 2 /\ solenoids.ready
  /\ solenoids.pending # {}

\* The line handled last by the call of #onStdout of this step.
LastLine == ev'.lines[Len(ev'.lines)]

\* C21 as stated: after a resp is handled, its id pending or not, the cached
\* status shows what it carries: its error when it has ok = false, its levels
\* when it has levels.
Orig_C21_RespRefreshesCache ==
  [][(ev'.type = "stdout" /\ LastLine.type = "resp") =>
       /\ ~LastLine.ok => solenoids'.lastStatus.lastError = "resp error"
       /\ LastLine.levels # Null => solenoids'.lastStatus.levels = LastLine.levels]_vars

\* The lines of the chunk handled in this step, and the first resp among
\* them that carries the id i (0: none does).
LinesNow == IF ev'.type = "stdout" THEN ev'.lines ELSE << >>

Skipped(msg) == msg.type \in {"junk", "other"}

FirstResp(lines, i) ==
  LET ks == {k \in 1..Len(lines) : lines[k].type = "resp" /\ lines[k].id = i}
  IN  IF ks = {} THEN 0 ELSE CHOOSE k \in ks : \A j \in ks : k <= j

CacheWriter(msg) == msg.type \in {"ready", "fatal"} \/ (msg.type = "resp" /\ msg.levels # Null)

LastWriter(lines) ==
  LET ks == {k \in 1..Len(lines) : CacheWriter(lines[k])}
  IN  IF ks = {} THEN 0 ELSE CHOOSE k \in ks : \A j \in ks : k >= j

\* C23: an action (allOff, shoot, release) whose request is resolved returns
\* a status snapshot, the cache as it is when the call of #onStdout that
\* handled its resp has returned: when that resp carries levels the snapshot
\* shows them, or those written by the last message handled after it in the
\* same chunk, never the cache from before the resp.
Thm_C23_ReturnsRefreshedStatus ==
  [][\A i \in Unsettled :
       sends'[i].status = "resolved" =>
         LET k == FirstResp(LinesNow, i)
             j == LastWriter(LinesNow)
         IN  /\ k # 0
             /\ ev'.ret = solenoids'.lastStatus
             /\ LinesNow[k].levels # Null =>
                  /\ j >= k
                  /\ ev'.ret.levels = LinesNow[j].levels
                  /\ j = k => ev'.ret = [ready |-> solenoids'.ready, lastError |-> "null",
                                         levels |-> LinesNow[k].levels]]_vars

\* A chunk of a ready message (levels 0) followed by the resp of the first
\* request (levels 1) has been handled: the action returned the levels 1.
Wit_C23_ReturnsRefreshedStatus ==
  /\ ev.type = "stdout"
  /\ Len(ev.lines) = 2
  /\ ev.lines[1].type = "ready" /\ ev.lines[1].levels = <<0>>
  /\ ev.lines[2].type = "resp" /\ ev.lines[2].id = 1 /\ ev.lines[2].ok
  /\ ev.lines[2].levels = <<1>>
  /\ sends[1].status = "resolved"
  /\ ev.ret = [ready |-> TRUE, lastError |-> "null", levels |-> <<1>>]

\* C24: a numeric pulseMs = N gives a pulse command of N ms with the timeout
\* N + 1500, whatever on is; without a numeric pulseMs a boolean on gives a
\* set command with that value (and only then is the command a set command);
\* with neither, shoot pulses 200 ms with the timeout 2000 and release 500 ms
\* with the timeout 2500.  So every pulse command of N ms has a timeout of at
\* least N + 1500.
Thm_C24_PulseTimeout ==
  output # Null =>
    LET c == Val(output)
        numeric == input.pulseMs.type = "number"
        boolean == input.on \in {"true", "false"}
    IN  /\ c.cmd = input.fn
        /\ c.action = "pulse" => c.timeoutMs >= Val(c.ms) + 1500
        /\ numeric => c.action = "pulse" /\ c.ms = <<input.pulseMs.val>>
                      /\ c.timeoutMs = input.pulseMs.val + 1500
        /\ c.action = "set" <=> (boolean /\ ~numeric)
        /\ c.action = "set" => c.on = input.on /\ c.ms = Null
        /\ (~numeric /\ ~boolean) =>
             /\ c.action = "pulse"
             /\ c.ms = (IF input.fn = "shoot" THEN <<200>> ELSE <<500>>)
             /\ c.timeoutMs = (IF input.fn = "shoot" THEN 2000 ELSE 2500)

\* shoot({ on: true, pulseMs: 5000 }): a pulse of 5000 ms with the timeout
\* 6500, on being ignored.
Wit_C24_PulseTimeout ==
  /\ input = [fn |-> "shoot", on |-> "true", pulseMs |-> [type |-> "number", val |-> 5000]]
  /\ output = <<Command("shoot", "pulse", <<5000>>, "undefined", 6500)>>

\* C25: a call of status() returns the cached status and changes nothing:
\* no subprocess is spawned, nothing is written, the handle, the pending
\* table, the timers, the readiness flag and the cache stay as they are; and
\* it can be made in every state, whatever is outstanding.
Thm_C25_StatusNoSideEffect ==
  /\ [](ENABLED statusCall)
  /\ [][ev'.type = "status" =>
          /\ ev'.ret = solenoids.lastStatus
          /\ UNCHANGED <<solenoids, timers, daemons, sends, stdin>>]_vars

\* status() called while two commands are outstanding and the subprocess has
\* not printed ready yet: it returned the initial cache.
Wit_C25_StatusNoSideEffect ==
  /\ ev.type = "status"
  /\ ev.ret = NoStatus
  /\ Cardinality(solenoids.pending) = 2
  /\ daemons = <<"starting">>

\* C26: setZero, when its turn comes, starts --halt-and-set-position 0 and
\* nothing else, the axis state unchanged; when that command is accepted the
\* target becomes 0, whatever it was (unset included), enabled staying as it
\* is, and the status read that follows changes nothing of the axis state;
\* when the command fails the axis state is unchanged and setZero fails with
\* its error.
Thm_C26_SetZero ==
  [][\A a \in Axes : \A o \in LiveCalls(a) :
       o.kind = "setZero" =>
         /\ StartsNow(a, o) =>
              /\ ~SettlesNow(a, o) /\ After(a, o).pc = "z1"
              /\ Cardinality(OfCall(StartedNow(a), o.id)) = 1
              /\ \A inv \in OfCall(StartedNow(a), o.id) :
                   inv.cmd = "--halt-and-set-position" /\ inv.arg = <<0>>
              /\ state'[a] = state[a]
         /\ (o.pc = "z1" /\ OfCall(Exited(a), o.id) # {}) =>
              IF AcceptedNow(a, o)
              THEN /\ state'[a] = [state[a] EXCEPT !.targetPos = <<0>>]
                   /\ ~SettlesNow(a, o) /\ After(a, o).pc = "z2"
                   /\ \A inv \in OfCall(StartedNow(a), o.id) : inv.cmd = "--status"
              ELSE /\ state'[a] = state[a]
                   /\ SettlesNow(a, o)
                   /\ last'.status = "rejected" /\ last'.err = "--halt-and-set-position"
         /\ (o.pc = "z2" /\ OfCall(Exited(a), o.id) # {}) =>
              /\ state'[a] = state[a]
              /\ state[a].targetPos = <<0>>
              /\ SettlesNow(a, o)]_vars

\* setZero accepted as the first call of an axis, whose target was not set:
\* the target is 0 and the status read is in flight.
Wit_C26_SetZero ==
  \E a \in Axes : \E o \in LiveCalls(a) :
    /\ o.kind = "setZero" /\ o.pc = "z2" /\ o.id = 1
    /\ calls[a] = 1
    /\ state[a] = [targetPos |-> <<0>>, enabled |-> FALSE]
    /\ \E inv \in InFlightOn(a) : inv.op = 1 /\ inv.cmd = "--status"

\* The lines of a status text that carry a field: those whose label is the
\* one of the field's pattern, in any case, and whose value the pattern
\* accepts; and the value such a line gives.
LabelsOf(field) ==
  CASE field = "currentPosition" -> {<<"C", "u", "r", "r", "e", "n", "t", " ", "p", "o", "s", "i", "t", "i", "o", "n">>,
                                      <<"C", "U", "R", "R", "E", "N", "T", " ", "P", "O", "S", "I", "T", "I", "O", "N">>}
    [] field = "energized" -> {<<"E", "n", "e", "r", "g", "i", "z", "e", "d">>}
    [] field = "safeStart" -> {<<"S", "a", "f", "e", " ", "s", "t", "a", "r", "t">>}
    [] field = "errorsStopping" -> {<<"E", "r", "r", "o", "r", "s", " ", "c", "u", "r", "r", "e", "n", "t", "l", "y", " ", "s", "t", "o", "p", "p", "i", "n", "g", " ", "t", "h", "e", " ", "m", "o", "t", "o", "r">>}

ValueRead(field, v) ==
  IF field = "currentPosition"
  THEN CASE v = <<"-", "4", "2">> -> <<-42>>
         [] v = <<"7">> -> <<7>>
         [] OTHER -> Null
  ELSE CASE v \in {<<"Y", "e", "s">>, <<"y", "e", "s">>} -> <<TRUE>>
         [] v = <<"N", "o">> -> <<FALSE>>
         [] OTHER -> Null

Carries(field, ln) == ln.label \in LabelsOf(field) /\ ValueRead(field, ln.value) # Null

\* The value of a field in a text: that of the first line that carries it,
\* none when no line does.
ExpectedField(field, lns) ==
  LET ks == {k \in 1..Len(lns) : Carries(field, lns[k])}
  IN  IF ks = {} THEN Null
      ELSE ValueRead(field, lns[CHOOSE k \in ks : \A j \in ks : k <= j].value)

\* C27: parseStatusText returns each of the four fields exactly when a line
\* of the text matches the field's pattern, with the value read from the
\* first such line (a position as a signed integer, Yes / No in any case as
\* a boolean), whatever the other lines are; a field no line carries is
\* absent, and no text raises an error.  The text "Current position: -42",
\* "Energized: No" gives currentPosition -42 and energized false only.
Thm_C27_ParseStatusText ==
  output # Null =>
    /\ Val(output) = [f \in {"currentPosition", "energized", "safeStart", "errorsStopping"} |->
                        ExpectedField(f, input)]
    /\ input = <<[label |-> <<"C", "u", "r", "r", "e", "n", "t", " ", "p", "o", "s", "i", "t", "i", "o", "n">>, value |-> <<"-", "4", "2">>],
                 [label |-> <<"E", "n", "e", "r", "g", "i", "z", "e", "d">>, value |-> <<"N", "o">>]>>
         => Val(output) = [currentPosition |-> <<-42>>, energized |-> <<FALSE>>,
                           safeStart |-> Null, errorsStopping |-> Null]

\* The text "Current position: -42", "Energized: No" has been parsed.
Wit_C27_ParseStatusText ==
  /\ TextOf(input) = <<"C", "u", "r", "r", "e", "n", "t", " ", "p", "o", "s", "i", "t", "i", "o", "n", ":", " ", "-", "4", "2">> \o <<"\n">>
                       \o <<"E", "n", "e", "r", "g", "i", "z", "e", "d", ":", " ", "N", "o">> \o <<"\n">>
  /\ output = <<[currentPosition |-> <<-42>>, energized |-> <<FALSE>>,
                 safeStart |-> Null, errorsStopping |-> Null]>>

\* The calls of axis a submitted before the call o that have not settled.
EarlierLive(a, o) == {p \in LiveCalls(a) : p.id < o.id}

\* C28: stop and disable wait their turn.  Their halt command is started
\* only when every call submitted before them on the axis has settled and no
\* other invocation of the axis is in flight; when the call they were queued
\* behind is a jog that succeeded, its position command has been accepted
\* (the target is the one it commanded) before the halt is started.  No
\* queued call is cancelled: submitting a call leaves the calls queued before
\* it as they are, a queued jog stays queued until its own turn comes and
\* then runs (on an enabled axis it starts its status read or its position
\* command), and a call settles only in a step of its own.
Thm_C28_StopNoPriority ==
  [][\A a \in Axes :
       /\ \A o \in LiveCalls(a) :
            (o.kind \in {"stop", "disable"} /\ StartsNow(a, o)) =>
              /\ EarlierLive(a, o) = {}
              /\ InFlightOn(a) = {}
              /\ \A inv \in StartedNow(a) : inv.op = o.id /\ inv.cmd = "--halt-and-hold"
              /\ (last.axis = a /\ last.id = o.pred /\ last.kind = "jog"
                    /\ last.status = "resolved") =>
                   state[a].targetPos = <<last.next>> /\ tic[a].lastOp = last.id
       /\ Len(ops'[a]) > Len(ops[a]) =>
            \A k \in 1..Len(ops[a]) : ops'[a][k] = ops[a][k]
       /\ \A o \in LiveCalls(a) :
            o.kind = "jog" /\ o.status = "queued" =>
              \/ ~SettlesNow(a, o) /\ After(a, o) = o
              \/ /\ StartsNow(a, o)
                 /\ OwnTurn(a, o)
                 /\ (state[a].enabled /\ serial[a]) =>
                      /\ ~SettlesNow(a, o)
                      /\ \E inv \in OfCall(StartedNow(a), o.id) :
                           inv.cmd \in {"--status", "--position"}
       /\ \A o \in LiveCalls(a) :
            SettlesNow(a, o) => StartsNow(a, o) \/ OfCall(Exited(a), o.id) # {}]_vars

\* A jog and then a stop were submitted while enable was running: the jog
\* has moved the target to 1125 and only then has the halt of the stop been
\* started.
Wit_C28_StopNoPriority ==
  /\ last.axis = "yaw" /\ last.kind = "jog" /\ last.id = 2 /\ last.status = "resolved"
  /\ last.next = 1125
  /\ state["yaw"].targetPos = <<1125>>
  /\ \E o \in LiveCalls("yaw") : o.kind = "stop" /\ o.id = 3 /\ o.pred = 2 /\ o.pc = "h1"
  /\ \E inv \in InFlightOn("yaw") : inv.op = 3 /\ inv.cmd = "--halt-and-hold"

\* C29 as stated: at most one subprocess of the client runs at any time: a
\* subprocess is spawned only when every subprocess spawned before has
\* exited.
Orig_C29_SingleSubprocess ==
  /\ [](Cardinality(Running) <= 1)
  /\ [][Len(daemons') > Len(daemons) => Running = {}]_vars

\* C30 as stated: a command is written only while the client is ready: the
\* subprocess of the handle has printed ready and has neither printed fatal
\* nor exited since.
Orig_C30_WriteOnlyWhenReady ==
  [][Len(stdin') > Len(stdin) =>
       /\ solenoids.proc # 0
       /\ solenoids.ready
       /\ daemons[solenoids.proc] = "ready"]_vars

\* The invocations started for the call o of axis a in this step are exactly
\* one, of command cmd.
StartsOne(a, o, cmd) ==
  /\ Cardinality(OfCall(StartedNow(a), o.id)) = 1
  /\ \A inv \in OfCall(StartedNow(a), o.id) : inv.cmd = cmd

\* The call o of axis a fails in this step with the error of command cmd,
\* starting nothing.
FailsNow(a, o, cmd) ==
  /\ SettlesNow(a, o)
  /\ last'.id = o.id /\ last'.axis = a
  /\ last'.status = "rejected" /\ last'.err = cmd
  /\ OfCall(StartedNow(a), o.id) = {}

Thm_C32_StateOwnedByHead ==
  [][\A a \in Axes :
       state'[a] # state[a] =>
         /\ ops[a] # << >>
         /\ ops[a][1].status = "running"
         /\ OfCall(Exited(a), ops[a][1].id) # {}
         /\ Exited(a) = OfCall(Exited(a), ops[a][1].id)
         /\ \A k \in 2..Len(ops[a]) :
              /\ ops[a][k].status = "queued"
              /\ ops'[a][IF SettlesNow(a, ops[a][1]) THEN k - 1 ELSE k] = ops[a][k]
         /\ calls' = calls /\ locks' = locks
         /\ \A b \in Axes \ {a} :
              /\ state'[b] = state[b]
              /\ ops'[b] = ops[b]
              /\ Exited(b) = {} /\ StartedNow(b) = {}]_vars

\* The enable at the head of the chain of an axis has set enabled and seeded
\* the target from a status read, a setZero is queued behind it and has
\* changed nothing, and a call of the other axis is running.
Wit_C32_StateOwnedByHead ==
  \E a \in Axes :
    /\ Len(ops[a]) = 2
    /\ ops[a][1].kind = "enable" /\ ops[a][1].pc = "en4"
    /\ ops[a][2].kind = "setZero" /\ ops[a][2].status = "queued"
    /\ state[a] = [targetPos |-> <<1000>>, enabled |-> TRUE]
    /\ \E b \in Axes \ {a} : \E o \in LiveCalls(b) : o.status = "running"

\* The subprocess the command of the request i was written to.
ProcOf(i) == stdin[CHOOSE k \in 1..Len(stdin) : stdin[k].id = i].gen

\* C33: timers firing, every request eventually settles, whatever the
\* subprocess does; an exit of a subprocess and shutdown settle nothing and
\* leave the pending table and the timers as they are; a request is settled
\* by its own resp, printed by the subprocess it was written to while that
\* one has not exited, or else rejected by its own timeout.
Thm_C33_RequestsSettle ==
  /\ \A i \in 1..MaxSends :
       (i \in 1..Len(sends) /\ i \in Unsettled) ~> (i \in 1..Len(sends) /\ i \notin Unsettled)
  /\ [][/\ ev'.type \in {"exit", "shutdown"} =>
             /\ sends' = sends
             /\ timers' = timers
             /\ solenoids'.pending = solenoids.pending
        /\ \A i \in Unsettled :
             i \notin Unsettled' =>
               \/ ev' = Event("timeout", i) /\ sends'[i] = TimeoutRejected
               \/ ev' = Event("resp", i) /\ Alive(ProcOf(i))]_vars

\* A request rejected by its timeout after the subprocess it was written to
\* was shut down and has exited, nothing having answered it.
Wit_C33_RequestsSettle ==
  /\ Len(sends) = 1 /\ TimedOut(1)
  /\ ev = Event("timeout", 1)
  /\ daemons = <<"exited">>
  /\ solenoids.proc = 0

\* C34: the halt of stop and of disable changes the axis state on one path
\* only: when --halt-and-hold has failed and the position command of the
\* fallback is accepted, the target becomes the position it commanded.  An
\* accepted --halt-and-hold leaves target and enabled as they are and ends
\* the halt, and a jog that starts with the target set reads no status: it
\* commands the cached target plus its signed step.
Thm_C34_HaltKeepsTarget ==
  [][\A a \in Axes : \A o \in LiveCalls(a) :
       /\ o.kind \in {"stop", "disable"} =>
            /\ StartsNow(a, o) => state'[a] = state[a]
            /\ (o.pc = "h1" /\ OfCall(Exited(a), o.id) # {}) =>
                 /\ state'[a] = state[a]
                 /\ AcceptedNow(a, o) =>
                      IF o.kind = "stop"
                      THEN /\ SettlesNow(a, o) /\ last'.status = "resolved"
                           /\ OfCall(StartedNow(a), o.id) = {}
                      ELSE StartsOne(a, o, "--deenergize")
            /\ (o.pc = "h2" /\ OfCall(Exited(a), o.id) # {}) => state'[a] = state[a]
            /\ (o.pc = "h3" /\ OfCall(Exited(a), o.id) # {}) =>
                 IF AcceptedNow(a, o)
                 THEN /\ \A inv \in OfCall(Exited(a), o.id) :
                           inv.cmd = "--position" /\ state'[a].targetPos = inv.arg
                      /\ state'[a].enabled = state[a].enabled
                 ELSE state'[a] = state[a]
            /\ (o.status = "running" /\ state'[a].targetPos # state[a].targetPos) =>
                 o.pc = "h3"
       /\ (o.kind = "jog" /\ StartsNow(a, o) /\ state[a].enabled /\ state[a].targetPos # Null) =>
            /\ state'[a] = state[a]
            /\ StartsOne(a, o, "--position")
            /\ \A inv \in OfCall(StartedNow(a), o.id) :
                 inv.arg = <<Val(state[a].targetPos)
                               + o.d * ExpectedStep(stepsPerTick[a], o.sp)>>]_vars

\* enable has seeded the target 1000, the stop after it has succeeded and the
\* target is still 1000; the jog after the stop commands 1000 + 125.
Wit_C34_HaltKeepsTarget ==
  /\ last.axis = "yaw" /\ last.kind = "stop" /\ last.id = 2 /\ last.status = "resolved"
  /\ state["yaw"] = [targetPos |-> <<1000>>, enabled |-> TRUE]
  /\ \E inv \in InFlightOn("yaw") :
       inv.op = 3 /\ inv.at = "j2" /\ inv.cmd = "--position" /\ inv.arg = <<1125>>

\* No unit of work of axis a is executing.
Quiet(a) == \A o \in LiveCalls(a) : o.status # "running"

\* C35 as stated: while no operation executes on an axis, enabled = true
\* implies that the last of --energize / --deenergize accepted for it was
\* --energize, and enabled = false implies that it was --deenergize or that
\* no --energize was ever accepted.
Orig_C35_EnabledMatchesPower ==
  \A a \in Axes :
    Quiet(a) =>
      /\ state[a].enabled => tic[a].power = "--energize"
      /\ ~state[a].enabled => tic[a].power \in {"--deenergize", "none"}

\* The subprocess g exits or prints ready or fatal in this step.
Reports(g) == Len(daemons') = Len(daemons) /\ daemons'[g] # daemons[g]

\* C36 as stated: once the handle names a newer subprocess, the exit (or a
\* ready or fatal line) of an older one leaves the handle, the readiness and
\* the cached status of the client as they are.
Orig_C36_OldExitIgnored ==
  [][\A g \in 1..Len(daemons) :
       (solenoids.proc # 0 /\ g < solenoids.proc /\ Reports(g)) =>
         /\ solenoids'.proc = solenoids.proc
         /\ solenoids'.ready = solenoids.ready
         /\ solenoids'.lastStatus = solenoids.lastStatus]_vars

\* The ready line of the subprocess g, written whole in one chunk.
ReadyChunk(g) == <<Piece("all", Line("ready", 0, g, TRUE, <<0>>), g), Newline(g)>>

\* C37 as stated: when the buffer holds nothing but what subprocesses that
\* have exited left in it, a ready line written by the subprocess of the
\* handle marks the client ready.
Orig_C37_BufferPerStream ==
  [][\A g \in 1..Len(daemons) :
       (/\ solenoids.proc = g
        /\ \A k \in 1..Len(solenoids.buf) : ~Alive(solenoids.buf[k].gen)
        /\ ev' = [type |-> "data", id |-> 0, gen |-> g, chunk |-> ReadyChunk(g)])
       => solenoids'.ready /\ solenoids'.lastStatus.ready]_vars

\* A call starts only when every call submitted before it on its axis has
\* settled.
InTurn(a, o) == StartsNow(a, o) => \A p \in LiveCalls(a) : p.id >= o.id

====
